---------------------------- MODULE Spec2Model ----------------------------
(***************************************************************************)
(* Model of the SSSP client (package sssp, src/sssp.go): the command       *)
(* senders fileCmd / readerCmd / dirCmd and the two response parsers       *)
(* processResponse (single target) and processResponses (multi target).    *)
(*                                                                         *)
(* Strings are sequences of one-character strings, so that prefix tests,   *)
(* cutset trimming, splitting and the VIRUS pattern are computed character *)
(* by character as the Go code computes them.                              *)
(***************************************************************************)
EXTENDS Integers, Sequences, FiniteSets, TLC

(***************************************************************************)
(* Bounds of the model.                                                    *)
(***************************************************************************)
\* Number of reply lines the server sends before the stream ends (EOF).
MaxLines == 4

\* Command is an int (src/sssp.go:59): the values -MaxCommand .. MaxCommand
\* are rendered.
MaxCommand == 60

(***************************************************************************)
(* Protocol constants, src/sssp.go:25-37.                                  *)
(***************************************************************************)
okResp == <<"O", "K">>
ackResp == <<"A", "C", "C">>
failResp == <<"F", "A", "I", "L">>
doneResp == <<"D", "O", "N", "E">>
doneOk == <<"D", "O", "N", "E", " ", "O", "K">>
doneFail == <<"D", "O", "N", "E", " ", "F", "A", "I", "L">>
virusResp == <<"V", "I", "R", "U", "S">>

\* Command values, src/sssp.go:39-50 (iota + 1).
ScanFile == 1
ScanDir == 2
ScanDirr == 3
ScanData == 4
Quit == 5

\* Variant of CommandString whose range test leaves Quit out.
CommandStringQuitExcluded(c) ==
    IF c < ScanFile \/ c >= Quit THEN <<>>
    ELSE << <<>>,
            <<"S", "C", "A", "N", "F", "I", "L", "E">>,
            <<"S", "C", "A", "N", "D", "I", "R">>,
            <<"S", "C", "A", "N", "D", "I", "R", "R">>,
            <<"S", "C", "A", "N", "D", "A", "T", "A">>,
            <<"B", "Y", "E">> >>[c + 1]

\* Command.String, src/sssp.go:61-76.
CommandString(c) ==
    IF c < ScanFile \/ c > Quit THEN <<>>
    ELSE << <<>>,
            <<"S", "C", "A", "N", "F", "I", "L", "E">>,
            <<"S", "C", "A", "N", "D", "I", "R">>,
            <<"S", "C", "A", "N", "D", "I", "R", "R">>,
            <<"S", "C", "A", "N", "D", "A", "T", "A">>,
            <<"B", "Y", "E">> >>[c + 1]

(***************************************************************************)
(* Go string functions used by the parsers.                                *)
(***************************************************************************)
SP == <<" ">>

\* strings.HasPrefix(s, prefix)
HasPrefix(s, prefix) ==
    /\ Len(s) >= Len(prefix)
    /\ \A i \in 1..Len(prefix) : s[i] = prefix[i]

\* The set of characters of a cutset string.
Chars(cutset) == {cutset[i] : i \in 1..Len(cutset)}

\* strings.TrimLeft(s, cutset): drops every leading character of s that
\* occurs in cutset (cutset is a set of characters, not a prefix).
TrimLeft(s, cutset) ==
    LET keep == {i \in 1..Len(s) : s[i] \notin Chars(cutset)}
    IN  IF keep = {} THEN <<>>
        ELSE LET first == CHOOSE i \in keep : \A j \in keep : i <= j
             IN  SubSeq(s, first, Len(s))

\* strings.Split(s, " "): the fields between single spaces; n spaces give
\* n + 1 fields, empty fields included.
RECURSIVE SplitFrom(_, _, _)
SplitFrom(s, i, cur) ==
    IF i > Len(s) THEN <<cur>>
    ELSE IF s[i] = " " THEN <<cur>> \o SplitFrom(s, i + 1, <<>>)
    ELSE SplitFrom(s, i + 1, Append(cur, s[i]))

Split(s) == SplitFrom(s, 1, <<>>)

\* Go regexp class \s is [\t\n\f\r ].
IsSpace(ch) == ch \in {" ", "\t", "\n", "\f", "\r"}

\* A maximal run of non-space characters of s starting at i: its end index
\* (i - 1 when the run is empty).
RECURSIVE RunEnd(_, _)
RunEnd(s, i) ==
    IF i > Len(s) \/ IsSpace(s[i]) THEN i - 1 ELSE RunEnd(s, i + 1)

NoMatch == <<>>

\* responseRe.FindStringSubmatch(line) for
\*   ^VIRUS\s(?P<signature>\S+)\s(?P<filename>\S+)?$
\* <<line, signature, filename>> on a match, NoMatch (nil) otherwise.
FindStringSubmatch(line) ==
    IF ~(HasPrefix(line, virusResp) /\ Len(line) >= 6 /\ IsSpace(line[6]))
    THEN NoMatch
    ELSE LET sigEnd == RunEnd(line, 7)
         IN  IF sigEnd < 7 \/ sigEnd >= Len(line) THEN NoMatch
             ELSE LET memEnd == RunEnd(line, sigEnd + 2)
                  IN  IF memEnd # Len(line) THEN NoMatch
                      ELSE << line,
                              SubSeq(line, 7, sigEnd),
                              SubSeq(line, sigEnd + 2, Len(line)) >>

(***************************************************************************)
(* Values.                                                                 *)
(***************************************************************************)
\* A nil pointer / nil error.
Nil == [nil |-> TRUE]

\* fmt.Errorf(format, arg): the error whose message is format with %s
\* replaced by arg.
Errorf(format, arg) == [format |-> format, arg |-> arg]

\* The error of a failed ReadLine, and of a failed command write.
ReadErr == [format |-> "read: i/o error", arg |-> <<>>]
WriteErr == [format |-> "write: i/o error", arg |-> <<>>]

\* &Response{} : the zero Response, src/sssp.go:79-87.
ZeroResponse ==
    [Filename |-> <<>>, ArchiveItem |-> <<>>, Signature |-> <<>>,
     Status |-> <<>>, Infected |-> FALSE, ErrorOccured |-> FALSE,
     Raw |-> <<>>]

(***************************************************************************)
(* Inputs: the requested paths and the lines a server may send.            *)
(***************************************************************************)
PathA == <<"/", "a">>
PathB == <<"/", "b">>
MemberA == <<"/", "a", "/", "m">>
StreamName == <<"s", "t", "r", "e", "a", "m">>

\* Paths a caller passes to ScanFile / ScanDir.
Paths == {PathA}

LinePool ==
    { <<>>,                                           \* end of exchange
      ackResp \o SP \o <<"x">>,                       \* ACC x
      doneOk,                                         \* DONE OK
      doneFail \o SP \o <<"0", "5", " ", "e">>,       \* DONE FAIL 05 e
      doneFail \o SP \o <<"F", "i", "l", "e">>,       \* DONE FAIL File
      virusResp \o SP \o <<"Z">> \o SP \o PathA,      \* VIRUS Z /a
      virusResp \o SP \o <<"E">> \o SP \o MemberA,    \* VIRUS E /a/m
      virusResp \o SP \o <<"E">>,                     \* VIRUS E
      virusResp \o SP \o <<"E">> \o SP,               \* VIRUS E<space>
      okResp \o SP \o <<"0">> \o SP \o PathA,         \* OK 0 /a
      okResp \o SP \o PathA,                          \* OK /a
      failResp \o SP \o <<"0">> \o SP \o PathB,       \* FAIL 0 /b
      failResp \o SP \o PathB }                       \* FAIL /b

\* An io.Reader handed to ScanReader: its dynamic type, the size of what it
\* reads from, its read position, and for an *os.File whether Stat and Read
\* succeed on the handle.
Source(kind, size, off, statable, readable) ==
    [kind |-> kind, size |-> size, off |-> off, statable |-> statable,
     readable |-> readable]

\* The io.Reader values of the sequential operations: a bytes.Reader
\* holding 2 bytes, and a reader whose length cannot be determined.
Readers == { Source("bytes.Reader", 2, 0, TRUE, TRUE),
             Source("unknown", 2, 0, TRUE, TRUE) }

\* The errors of v.Stat() and of reading the source in io.Copy.
FileStatErr == [format |-> "stat: file already closed", arg |-> <<>>]
CopyReadErr == [format |-> "read: is a directory", arg |-> <<>>]

\* Lines 227-243: the type switch of readerCmd.  Len() of the in-memory
\* readers is the unread part; for a file it is stat.Size().
ContentLength(i) ==
    IF i.kind \in {"bytes.Buffer", "bytes.Reader", "strings.Reader"}
    THEN [clen |-> i.size - i.off, err |-> Nil]
    ELSE IF i.kind = "os.File"
    THEN IF i.statable
         THEN [clen |-> i.size, err |-> Nil]
         ELSE [clen |-> 0, err |-> FileStatErr]
    ELSE [clen |-> 0,
          err |-> Errorf("The content length could not be determined", <<>>)]

\* Line 255, io.Copy(c.tc.Writer.W, i): what the source delivers, from its
\* read position to its end, or the error of reading it.
Copy(i) ==
    IF i.readable
    THEN [n |-> i.size - i.off, err |-> Nil]
    ELSE [n |-> 0, err |-> CopyReadErr]

\* strconv of a small non-negative length (%d).
Itoa(n) == << <<"0">>, <<"1">>, <<"2">>, <<"3">>, <<"4">>, <<"5">>,
              <<"6">>, <<"7">>, <<"8">>, <<"9">> >>[n + 1]

(***************************************************************************)
(* Connection set-up: constants, arguments and environment,                *)
(* src/sssp.go:26-29 and 515-545.                                          *)
(***************************************************************************)
\* Durations are counted in seconds.
defaultSleep == 1
defaultSock ==
    <<"/", "v", "a", "r", "/", "l", "i", "b", "/", "s", "a", "v", "d", "i",
      "d", "/", "s", "s", "s", "p", ".", "s", "o", "c", "k">>
protocolVersion == <<"S", "S", "S", "P", "/", "1", ".", "0">>

\* The network names NewClient tests for, and one it rejects.
unix == <<"u", "n", "i", "x">>
unixpacket == <<"u", "n", "i", "x", "p", "a", "c", "k", "e", "t">>
tcp == <<"t", "c", "p">>
tcp4 == <<"t", "c", "p", "4">>
tcp6 == <<"t", "c", "p", "6">>
udp == <<"u", "d", "p">>

\* Bounds: the largest connRetries a caller passes, and how many times
\* Dial is called on one Client (NewClient's call included).
MaxRetries == 1
MaxDials == 2

\* The arguments callers pass to NewClient.
SockA == <<"/", "s">>
HostA == <<"h", ":", "1">>
Networks == {<<>>, unix, unixpacket, tcp, udp}
Addresses == {<<>>, defaultSock, SockA, HostA}
ConnTimeOuts == {1}
IoTimeOuts == {30}
Retries == (0 - 1) .. MaxRetries

\* The arguments callers pass to SetCmdTimeout and SetConnSleep.
Durations == {0 - 1, 0, 2}

\* What os.Stat may find: no socket at all, or both sockets.
Environments == {{}, {defaultSock, SockA}}

\* The lines a server may send during the handshake and in reply to BYE.
HandshakeLines ==
    { okResp \o SP \o <<"x">>,                        \* OK x
      ackResp \o SP \o <<"x">>,                       \* ACC x
      <<>> }

\* c.tc.ReadLine() during the handshake and in basicCmd.
ReadReply ==
    {[line |-> <<>>, err |-> ReadErr]} \cup
    {[line |-> l, err |-> Nil] : l \in HandshakeLines}

\* d.Dial(network, address): a connection, a net.Error whose Timeout() is
\* true, or any other error.
DialOutcomes == {"ok", "timeout", "refused"}

\* The error of the n-th attempt of a dial() whose outcome was out.
DialErr(out, n) ==
    IF out = "timeout"
    THEN [format |-> "dial: i/o timeout", arg |-> Itoa(n)]
    ELSE [format |-> "dial: connection refused", arg |-> Itoa(n)]

\* c.tc.Close(): the connection is closed; Close may still report an error.
CloseErr == [format |-> "close: i/o error", arg |-> <<>>]
CloseOutcomes == {Nil, CloseErr}

\* The entries of the handshake log.
HsRead(line) == [ev |-> "read", line |-> line]
HsWrite(line) == [ev |-> "write", line |-> line]
HsReadErr == [ev |-> "read failed"]
HsWriteErr == [ev |-> "write failed"]

\* &Client{...}, src/sssp.go:533-540: tc and conn are nil (0) until Dial
\* assigns them; a connection is named by its number.
NewClientRecord(a) ==
    [network |-> a.network, address |-> a.address,
     connTimeout |-> a.connTimeOut, connSleep |-> defaultSleep,
     cmdTimeout |-> a.ioTimeOut, connRetries |-> a.connRetries,
     tc |-> 0, conn |-> 0]

\* A session NewClient("tcp", "h:1", 1s, 30s, 0) has returned without
\* error: the state every scan operation of Spec starts from.
ReadyArgs ==
    [network |-> tcp, address |-> HostA, connTimeOut |-> 1,
     ioTimeOut |-> 30, connRetries |-> 0]
ReadyClient == [NewClientRecord(ReadyArgs) EXCEPT !.tc = 1, !.conn = 1]
ReadyHandshake ==
    << HsRead(okResp \o SP \o <<"x">>), HsWrite(protocolVersion),
       HsRead(ackResp \o SP \o <<"x">>) >>

(***************************************************************************)
(* Callers of one session and the pipeline of its transport.  The example  *)
(* program, src/examples/sssptest.go:83-90, starts one goroutine per file  *)
(* on one Client.                                                          *)
(***************************************************************************)
\* Number of goroutines that call operations on the session.
MaxCallers == 2

\* Number of reply lines the server sends to the concurrent callers before
\* it falls silent and reads time out.
MaxReplies == 2

Callers == 1 .. MaxCallers

\* A goroutine that has not called an operation yet.
IdleCaller == [pc |-> "idle", op |-> Nil, id |-> 0, err |-> Nil]

\* textproto.NewConn(c.conn), src/sssp.go:499: the pipeline's id counter
\* and the ids its request and response sequencers admit next; the sticky
\* error of the buffered writer; the number of reply lines read so far.
NewPipeline == [id |-> 0, request |-> 0, response |-> 0]
NewTransport == [werr |-> Nil, lines |-> 0, written |-> <<>>, reply |-> 0]

(***************************************************************************)
(* State.                                                                  *)
(***************************************************************************)
VARIABLES
    pc,        \* where the caller is: "idle", "single" (processResponse
               \* loop), "multi" (processResponses outer loop), "inner"
               \* (its nested loop after a VIRUS line), "done" (returned)
    wire,      \* what the commands wrote to the transport c.tc, in order
    deadline,  \* TRUE while a deadline is set on c.conn
    input,     \* the reply lines ReadLine has returned to the commands
    r,         \* *Response returned by fileCmd / readerCmd (Nil = nil)
    rlist,     \* []*Response returned by dirCmd
    rs,        \* the Response under construction in processResponses
    seen,      \* processResponses: r[0] has been filled
    ierr,      \* the pending protocol-content error
    err,       \* the error returned
    p,         \* the target name passed to processResponse
    ioerr,     \* the error the transport gave to a ReadLine (Nil = none yet)
    call,      \* the exported function called last, with its arguments
               \* (for Close: with the errors of the quit exchange and of
               \* c.tc.Close())
    exists,    \* the socket paths for which os.Stat finds a file
    args,      \* the arguments NewClient was called with
    client,    \* *Client: the fields of src/sssp.go:90-100 (Nil = nil)
    open,      \* the connections d.Dial returned that are not closed yet
    opened,    \* how many connections d.Dial has returned so far
    dials,     \* the outcomes of d.Dial in the latest dial(), in order
    hs,        \* what Dial read and wrote on the connection, in order
    ncalls,    \* how many times Dial has been called
    command,   \* a Command value handed to Command.String
    str,       \* what Command.String returned for it (Nil = not called)
    caller,    \* per goroutine: where it is in its operation, the
               \* operation, the pipeline id it drew, the error returned
    pipe,      \* the textproto.Pipeline of c.tc
    transport  \* the writer and reader of c.tc

\* The variables of the connection set-up, which no scan operation assigns.
connVars == <<exists, args, client, open, opened, dials, hs, ncalls>>

\* The variables of Command.String and of the concurrent callers, which the
\* sequential operations do not assign.
extVars == <<command, str, caller, pipe, transport>>

vars == <<pc, wire, deadline, input, r, rlist, rs, seen, ierr, err, p, ioerr,
          call, connVars, extVars>>

\* NewClient has returned a connected session and no operation has been
\* called on it.
ReadySession ==
    /\ pc = "idle"
    /\ wire = <<>>
    /\ deadline = FALSE
    /\ input = <<>>
    /\ r = Nil
    /\ rlist = <<>>
    /\ rs = Nil
    /\ seen = FALSE
    /\ ierr = Nil
    /\ err = Nil
    /\ p = <<>>
    /\ ioerr = Nil
    /\ call = [op |-> "NewClient"]
    /\ exists = {}
    /\ args = ReadyArgs
    /\ client = ReadyClient
    /\ open = {1}
    /\ opened = 1
    /\ dials = <<"ok">>
    /\ hs = ReadyHandshake
    /\ ncalls = 1

Init ==
    /\ ReadySession
    /\ command = 0
    /\ str = Nil
    /\ caller = [c \in Callers |-> IdleCaller]
    /\ pipe = NewPipeline
    /\ transport = NewTransport

\* c.tc.ReadLine(): the next line of the reply, or a read error (time-out,
\* connection closed).  After MaxLines lines the stream has ended.
ReadLine ==
    {[line |-> <<>>, err |-> ReadErr]} \cup
    (IF Len(input) < MaxLines
     THEN {[line |-> l, err |-> Nil] : l \in LinePool}
     ELSE {})

\* c.tc.Cmd(format, ...) / PrintfLine: the line is written, or the write fails.
WriteOutcomes == {Nil, WriteErr}

CmdLine(cmd, arg) == [kind |-> "line", data |-> CommandString(cmd) \o SP \o arg]

(***************************************************************************)
(* Pieces of the parsers, src/sssp.go:295-442.                             *)
(***************************************************************************)
\* Variant of DoneFailErr that tests the DONE prefix only, so that DONE OK
\* records an error too.
DoneFailErrAnyDone(line, pending) ==
    IF HasPrefix(line, doneResp)
    THEN Errorf("%s", TrimLeft(TrimLeft(line, doneFail), SP))
    ELSE pending

\* Variant of DoneFailErr that keeps an error recorded earlier.
DoneFailErrKeepsFirst(line, pending) ==
    IF pending # Nil THEN pending
    ELSE IF HasPrefix(line, doneResp) /\ HasPrefix(line, doneFail)
    THEN Errorf("%s", TrimLeft(TrimLeft(line, doneFail), SP))
    ELSE pending

\* Lines 313-317 and 366-370: a DONE FAIL line records the pending error.
DoneFailErr(line, pending) ==
    IF HasPrefix(line, doneResp) /\ HasPrefix(line, doneFail)
    THEN Errorf("%s", TrimLeft(TrimLeft(line, doneFail), SP))
    ELSE pending

\* Variant of ExitErr that drops the pending error.
ExitErrDropsPending(e, pending) == e

\* Lines 343-345 and 437-439: the error returned after the loop.
ExitErr(e, pending) ==
    IF e = Nil /\ pending # Nil THEN pending ELSE e

\* Variant of SingleMatch that records the member without comparing it
\* with the requested target.
SingleMatchAlwaysMember(resp, m, line) ==
    [resp EXCEPT !.ArchiveItem = m[3],
                 !.Infected = TRUE,
                 !.Signature = m[2],
                 !.Raw = line]

\* Lines 328-333: the first matching VIRUS line in single-target mode.
SingleMatch(resp, m, line) ==
    [resp EXCEPT !.ArchiveItem = IF resp.Filename # m[3] THEN m[3] ELSE @,
                 !.Infected = TRUE,
                 !.Signature = m[2],
                 !.Raw = line]

\* Lines 377-385: the Response of a FAIL line.
FailItem(line) ==
    LET pts == Split(line)
    IN  [ZeroResponse EXCEPT !.ErrorOccured = TRUE,
                             !.Raw = line,
                             !.Filename = IF Len(pts) # 3 THEN @ ELSE pts[3]]

\* Variant of ItemErr that accepts any field count.
ItemErrIgnored(line, pending) == pending

\* Lines 381-382 and 411-412: a per-item line that does not split into
\* exactly 3 fields records the pending error.
ItemErr(line, pending) ==
    IF Len(Split(line)) # 3
    THEN Errorf("Invalid server response: %s", line)
    ELSE pending

\* Variant of VirusItem that also marks the item as failed.
VirusItemFailed(m, line) ==
    [ZeroResponse EXCEPT !.Infected = TRUE,
                         !.ErrorOccured = TRUE,
                         !.Signature = m[2],
                         !.Raw = line,
                         !.ArchiveItem = m[3]]

\* Lines 396-400: the Response started by a matching VIRUS line.
VirusItem(m, line) ==
    [ZeroResponse EXCEPT !.Infected = TRUE,
                         !.Signature = m[2],
                         !.Raw = line,
                         !.ArchiveItem = m[3]]

\* Variant of CloseItem that keeps the member when it equals the target.
CloseItemKeepMember(item, line) ==
    LET pts == Split(line)
    IN  IF Len(pts) # 3 THEN item
        ELSE [item EXCEPT !.Filename = pts[3]]

\* Variant of CloseItem that takes the target from the second field.
CloseItemSecondField(item, line) ==
    LET pts == Split(line)
    IN  IF Len(pts) # 3 THEN item
        ELSE [item EXCEPT !.Filename = pts[2],
                          !.ArchiveItem = IF @ = pts[2] THEN <<>> ELSE @]

\* Lines 410-418: the OK line that closes a VIRUS sequence.
CloseItem(item, line) ==
    LET pts == Split(line)
    IN  IF Len(pts) # 3 THEN item
        ELSE [item EXCEPT !.Filename = pts[3],
                          !.ArchiveItem = IF @ = pts[3] THEN <<>> ELSE @]

\* Line 355: r = make([]*Response, 1).
MakeList == <<Nil>>

\* Lines 386-391 and 422-427: the first item fills r[0], later ones are appended.
AddItem(list, filled, item) ==
    IF ~filled THEN [list EXCEPT ![1] = item] ELSE Append(list, item)

\* The session holds no connection: Dial returned at line 494 with the nil
\* connection that line 493 stored in c.conn.
Unconnected == pc = "failed" /\ client # Nil /\ client.conn = 0

\* Lines 189, 206, 225 and 281: each command begins by calling (or deferring)
\* c.conn.SetDeadline.  With c.conn == nil that is a method call on a nil
\* interface value: the goroutine panics before anything is written.
NilConn(op) ==
    /\ call' = op
    /\ pc' = "panic"
    /\ UNCHANGED <<wire, deadline, input, r, rlist, rs, seen, ierr, err, p,
                   ioerr>>
    /\ UNCHANGED connVars
    /\ UNCHANGED extVars

(***************************************************************************)
(* The command senders, src/sssp.go:203-293.                               *)
(***************************************************************************)
\* fileCmd(path): sets the deadline and writes "SCANFILE path".  A failed
\* write returns (nil, err) before the deferred deadline reset is
\* registered; otherwise processResponse(path) starts with
\* r = &Response{Filename: path}.
fileCmd ==
    IF Unconnected
    THEN \E path \in Paths :
            NilConn([op |-> "ScanFile", path |-> path])
    ELSE /\ pc = "idle"
         /\ \E path \in Paths, w \in WriteOutcomes :
             /\ call' = [op |-> "ScanFile", path |-> path]
             /\ deadline' = TRUE
             /\ IF w # Nil
                THEN /\ pc' = "done"
                     /\ err' = w
                     /\ UNCHANGED <<wire, r, p>>
                ELSE /\ wire' = Append(wire, CmdLine(ScanFile, path))
                     /\ pc' = "single"
                     /\ p' = path
                     /\ r' = [ZeroResponse EXCEPT !.Filename = path]
                     /\ UNCHANGED err
         /\ UNCHANGED <<input, rlist, rs, seen, ierr, ioerr>>
         /\ UNCHANGED connVars
         /\ UNCHANGED extVars

\* readerCmd(i): the deferred deadline reset is registered first.  A reader
\* of unknown length is rejected before anything is written; otherwise
\* "SCANDATA <clen>" and the payload are written and processResponse("stream")
\* starts.
readerCmd ==
    IF Unconnected
    THEN \E i \in Readers :
            NilConn([op |-> "ScanReader", i |-> i])
    ELSE /\ pc = "idle"
         /\ \E i \in Readers, w1 \in WriteOutcomes, w2 \in WriteOutcomes :
             /\ call' = [op |-> "ScanReader", i |-> i]
             /\ IF ContentLength(i).err # Nil
                THEN /\ err' = ContentLength(i).err
                     /\ pc' = "done"
                     /\ deadline' = FALSE
                     /\ UNCHANGED <<wire, r, p>>
                ELSE IF w1 # Nil
                THEN /\ err' = w1
                     /\ pc' = "done"
                     /\ deadline' = FALSE
                     /\ UNCHANGED <<wire, r, p>>
                ELSE IF w2 # Nil
                THEN /\ err' = w2
                     /\ pc' = "done"
                     /\ deadline' = FALSE
                     /\ wire' = Append(wire,
                                       CmdLine(ScanData, Itoa(ContentLength(i).clen)))
                     /\ UNCHANGED <<r, p>>
                ELSE /\ wire' = wire \o << CmdLine(ScanData,
                                                   Itoa(ContentLength(i).clen)),
                                           [kind |-> "raw", data |-> Copy(i).n] >>
                     /\ deadline' = TRUE
                     /\ pc' = "single"
                     /\ p' = StreamName
                     /\ r' = [ZeroResponse EXCEPT !.Filename = StreamName]
                     /\ UNCHANGED err
         /\ UNCHANGED <<input, rlist, rs, seen, ierr, ioerr>>
         /\ UNCHANGED connVars
         /\ UNCHANGED extVars

\* dirCmd(path, rc): writes "SCANDIR path" or "SCANDIRR path"; a failed
\* write returns (nil, err); otherwise processResponses starts with
\* r = make([]*Response, 1).
dirCmd ==
    IF Unconnected
    THEN \E path \in Paths, rc \in BOOLEAN :
            NilConn([op |-> IF rc THEN "ScanDirRecurse" ELSE "ScanDir",
                     path |-> path])
    ELSE /\ pc = "idle"
         /\ \E path \in Paths, rc \in BOOLEAN, w \in WriteOutcomes :
             /\ call' = [op |-> IF rc THEN "ScanDirRecurse" ELSE "ScanDir",
                          path |-> path]
             /\ deadline' = TRUE
             /\ IF w # Nil
                THEN /\ pc' = "done"
                     /\ err' = w
                     /\ UNCHANGED <<wire, rlist>>
                ELSE /\ wire' = Append(wire,
                                    CmdLine(IF rc THEN ScanDirr ELSE ScanDir, path))
                     /\ pc' = "multi"
                     /\ rlist' = MakeList
                     /\ UNCHANGED err
         /\ UNCHANGED <<input, r, rs, seen, ierr, p, ioerr>>
         /\ UNCHANGED connVars
         /\ UNCHANGED extVars

\* Variant of Captured under which every matching line is taken.
CapturedNever(resp) == FALSE

\* Line 323: a match has already been captured for this exchange.
Captured(resp) == resp.Signature # <<>>

(***************************************************************************)
(* processResponse, src/sssp.go:295-348: one iteration of its loop, from   *)
(* ReadLine to the next ReadLine or to the return.                         *)
(***************************************************************************)
processResponse ==
    /\ pc = "single"
    /\ \E got \in ReadLine :
        LET line == got.line
            m == FindStringSubmatch(line)
            pending == DoneFailErr(line, ierr)
        IN  IF got.err # Nil
            THEN \* line 305-307: return r, err
                 /\ err' = got.err
                 /\ ioerr' = got.err
                 /\ pc' = "done"
                 /\ deadline' = FALSE
                 /\ UNCHANGED <<input, r, ierr>>
            ELSE /\ input' = Append(input, line)
                 /\ UNCHANGED ioerr
                 /\ IF HasPrefix(line, ackResp)
                    THEN /\ deadline' = TRUE
                         /\ UNCHANGED <<pc, r, ierr, err>>
                    ELSE IF line = <<>>
                    THEN \* break; lines 343-347
                         /\ err' = ExitErr(Nil, pending)
                         /\ ierr' = pending
                         /\ pc' = "done"
                         /\ deadline' = FALSE
                         /\ UNCHANGED r
                    ELSE IF Captured(r)
                    THEN /\ ierr' = pending
                         /\ deadline' = TRUE
                         /\ UNCHANGED <<pc, r, err>>
                    ELSE IF m # NoMatch
                    THEN /\ r' = SingleMatch(r, m, line)
                         /\ ierr' = pending
                         /\ deadline' = TRUE
                         /\ UNCHANGED <<pc, err>>
                    ELSE IF HasPrefix(line, virusResp)
                    THEN /\ ierr' = Errorf("Virus match failure: |%s|", line)
                         /\ deadline' = TRUE
                         /\ UNCHANGED <<pc, r, err>>
                    ELSE /\ ierr' = pending
                         /\ deadline' = TRUE
                         /\ UNCHANGED <<pc, r, err>>
    /\ UNCHANGED <<wire, rlist, rs, seen, p>>
    /\ UNCHANGED <<call, connVars>>
    /\ UNCHANGED extVars

(***************************************************************************)
(* processResponses, src/sssp.go:350-442: one iteration of the outer loop  *)
(* up to the next ReadLine (of the outer or of the nested loop) or to the   *)
(* return.                                                                 *)
(***************************************************************************)
processResponses ==
    /\ pc = "multi"
    /\ \E got \in ReadLine :
        LET line == got.line
            m == FindStringSubmatch(line)
            pending == DoneFailErr(line, ierr)
        IN  IF got.err # Nil
            THEN \* line 358-360: return r, err
                 /\ err' = got.err
                 /\ ioerr' = got.err
                 /\ pc' = "done"
                 /\ deadline' = FALSE
                 /\ UNCHANGED <<input, rlist, rs, seen, ierr>>
            ELSE /\ input' = Append(input, line)
                 /\ UNCHANGED ioerr
                 /\ IF HasPrefix(line, ackResp)
                    THEN /\ deadline' = TRUE
                         /\ UNCHANGED <<pc, rlist, rs, seen, ierr, err>>
                    ELSE IF line = <<>>
                    THEN \* break; lines 437-441
                         /\ err' = ExitErr(Nil, pending)
                         /\ ierr' = pending
                         /\ pc' = "done"
                         /\ deadline' = FALSE
                         /\ UNCHANGED <<rlist, rs, seen>>
                    ELSE IF HasPrefix(line, failResp)
                    THEN /\ rlist' = AddItem(rlist, seen, FailItem(line))
                         /\ ierr' = ItemErr(line, pending)
                         /\ seen' = TRUE
                         /\ deadline' = TRUE
                         /\ UNCHANGED <<pc, rs, err>>
                    ELSE IF m # NoMatch
                    THEN \* enters the nested loop, lines 401-421
                         /\ rs' = VirusItem(m, line)
                         /\ ierr' = pending
                         /\ pc' = "inner"
                         /\ deadline' = TRUE
                         /\ UNCHANGED <<rlist, seen, err>>
                    ELSE IF HasPrefix(line, virusResp)
                    THEN /\ ierr' = Errorf("Virus match failure: %s", line)
                         /\ deadline' = TRUE
                         /\ UNCHANGED <<pc, rlist, rs, seen, err>>
                    ELSE /\ ierr' = pending
                         /\ deadline' = TRUE
                         /\ UNCHANGED <<pc, rlist, rs, seen, err>>
    /\ UNCHANGED <<wire, r, p>>
    /\ UNCHANGED <<call, connVars>>
    /\ UNCHANGED extVars

\* Variant of InnerReadErr that adds the item under construction to the
\* list.
InnerReadErrAddsItem(list, filled, item) == AddItem(list, filled, item)

\* Lines 403-405: a failed read in the nested loop returns the list as it
\* is; the item under construction is dropped.
InnerReadErr(list, filled, item) == list

\* One iteration of the nested loop, lines 401-421, and on an OK line the
\* rest of the outer iteration, lines 422-433.
processResponsesInner ==
    /\ pc = "inner"
    /\ \E got \in ReadLine :
        LET line == got.line
        IN  IF got.err # Nil
            THEN \* line 403-405: return r, err
                 /\ err' = got.err
                 /\ ioerr' = got.err
                 /\ pc' = "done"
                 /\ deadline' = FALSE
                 /\ rlist' = InnerReadErr(rlist, seen, rs)
                 /\ UNCHANGED <<input, rs, seen, ierr>>
            ELSE /\ input' = Append(input, line)
                 /\ UNCHANGED ioerr
                 /\ deadline' = TRUE
                 /\ IF HasPrefix(line, virusResp)
                    THEN UNCHANGED <<pc, rlist, rs, seen, ierr, err>>
                    ELSE IF HasPrefix(line, okResp)
                    THEN /\ rlist' = AddItem(rlist, seen, CloseItem(rs, line))
                         /\ rs' = Nil
                         /\ ierr' = ItemErr(line, ierr)
                         /\ seen' = TRUE
                         /\ pc' = "multi"
                         /\ UNCHANGED err
                    ELSE UNCHANGED <<pc, rlist, rs, seen, ierr, err>>
    /\ UNCHANGED <<wire, r, p>>
    /\ UNCHANGED <<call, connVars>>
    /\ UNCHANGED extVars

Next ==
    \/ fileCmd
    \/ readerCmd
    \/ dirCmd
    \/ processResponse
    \/ processResponses
    \/ processResponsesInner

Spec == Init /\ [][Next]_vars

(***************************************************************************)
(* Command.String, src/sssp.go:61-76, called on any value of the type.     *)
(***************************************************************************)
\* type Command int, line 59.
CommandValues == (0 - MaxCommand) .. MaxCommand

\* c.String() for the value c = command; the result is s.
String ==
    /\ str = Nil
    /\ str' = [s |-> CommandString(command)]
    /\ UNCHANGED <<pc, wire, deadline, input, r, rlist, rs, seen, ierr, err,
                   p, ioerr, call, connVars>>
    /\ UNCHANGED <<command, caller, pipe, transport>>

InitCmd ==
    /\ ReadySession
    /\ command \in CommandValues
    /\ str = Nil
    /\ caller = [c \in Callers |-> IdleCaller]
    /\ pipe = NewPipeline
    /\ transport = NewTransport

NextCmd == String

SpecCmd == InitCmd /\ [][NextCmd]_vars

(***************************************************************************)
(* NewClient, src/sssp.go:515-545.                                         *)
(***************************************************************************)
\* Variant of Defaulted that applies the defaults when either argument is
\* empty.
DefaultedEitherEmpty(a) ==
    IF a.network = <<>> \/ a.address = <<>>
    THEN [a EXCEPT !.network = unix, !.address = defaultSock]
    ELSE a

\* Lines 516-519: the defaults replace network and address when both are
\* empty.
Defaulted(a) ==
    IF a.network = <<>> /\ a.address = <<>>
    THEN [a EXCEPT !.network = unix, !.address = defaultSock]
    ELSE a

\* Variant of Supported that lets every network name through.
SupportedAnyKind(network) == TRUE

\* Line 521: the network names NewClient accepts.
Supported(network) == network \in {unix, unixpacket, tcp, tcp4, tcp6}

\* Variant of IsUnixKind that leaves unixpacket out.
IsUnixKindUnixOnly(network) == network = unix

\* Line 526: the networks whose address is a socket path.
IsUnixKind(network) == network \in {unix, unixpacket}

\* Lines 521-531: the error of the validation, nil when it passes.
\* os.IsNotExist(err) holds exactly for the paths without a file.
Validate(a) ==
    IF ~Supported(a.network)
    THEN Errorf("Protocol: %s is not supported", a.network)
    ELSE IF IsUnixKind(a.network) /\ a.address \notin exists
    THEN Errorf("The unix socket: %s does not exist", a.address)
    ELSE Nil

\* Variant of ClientOf that stores the command time-out as the connect
\* time-out.
ClientOfTimeoutsMixed(a) ==
    [NewClientRecord(a) EXCEPT !.connTimeout = a.ioTimeOut]

\* Lines 533-540: the Client built from the (defaulted) arguments.
ClientOf(a) == NewClientRecord(a)

\* Dial, lines 489-497, up to the first d.Dial of dial (lines 169-175): with
\* connRetries < 0 the loop body never runs, dial returns (nil, nil), Dial
\* stores the nil conn and the defer of c.conn.SetDeadline panics.
EnterDial(cl) == IF cl.connRetries < 0 THEN "panic" ELSE "dial"

NewClient ==
    /\ pc = "start"
    /\ \E network \in Networks, address \in Addresses,
          connTimeOut \in ConnTimeOuts, ioTimeOut \in IoTimeOuts,
          connRetries \in Retries :
        LET given == [network |-> network, address |-> address,
                      connTimeOut |-> connTimeOut, ioTimeOut |-> ioTimeOut,
                      connRetries |-> connRetries]
            a == Defaulted(given)
            verr == Validate(a)
        IN  /\ args' = given
            /\ call' = [op |-> "NewClient"]
            /\ IF verr # Nil
               THEN \* return with c still nil
                    /\ err' = verr
                    /\ pc' = "failed"
                    /\ UNCHANGED <<client, ncalls>>
               ELSE /\ client' = ClientOf(a)
                    /\ ncalls' = ncalls + 1
                    /\ pc' = EnterDial(ClientOf(a))
                    /\ UNCHANGED err
    /\ UNCHANGED <<wire, deadline, input, r, rlist, rs, seen, ierr, p, ioerr>>
    /\ UNCHANGED <<exists, open, opened, dials, hs>>
    /\ UNCHANGED extVars


(***************************************************************************)
(* dial, src/sssp.go:169-184: one iteration of its loop, that is one       *)
(* d.Dial, and on the exit from the loop the rest of Dial up to the        *)
(* ReadLine of greeting (lines 493-499).                                   *)
(***************************************************************************)
\* Variant of Retryable that retries after every failed attempt.
RetryableAnyError(out) == out # "ok"

\* Line 176: err is a net.Error and its Timeout() is true.
Retryable(out) == out = "timeout"

\* Variant of LoopGoesOn that allows one attempt fewer.
LoopGoesOnOneLess(n, retries) == n < retries

\* Line 174, i <= c.connRetries, evaluated after the i++ that follows the
\* n-th attempt (i = n).
LoopGoesOn(n, retries) == n <= retries

dial ==
    /\ pc = "dial"
    /\ \E out \in DialOutcomes :
        LET n == Len(dials) + 1
            id == opened + 1
        IN  /\ dials' = Append(dials, out)
            /\ IF Retryable(out) /\ LoopGoesOn(n, client.connRetries)
               THEN \* time.Sleep(c.connSleep); continue
                    UNCHANGED <<pc, client, open, opened, hs, wire, input,
                                deadline, err>>
               ELSE IF out = "ok"
               THEN \* c.conn = conn; c.tc = textproto.NewConn(c.conn): the
                    \* new transport has carried nothing yet and has no
                    \* deadline; the transport held before is not closed
                    /\ opened' = id
                    /\ open' = open \cup {id}
                    /\ client' = [client EXCEPT !.conn = id, !.tc = id]
                    /\ hs' = <<>>
                    /\ wire' = <<>>
                    /\ input' = <<>>
                    /\ deadline' = FALSE
                    /\ pc' = "greeting"
                    /\ UNCHANGED err
               ELSE \* Dial lines 493-495: c.conn = nil, return err
                    /\ client' = [client EXCEPT !.conn = 0]
                    /\ err' = DialErr(out, n)
                    /\ pc' = "failed"
                    /\ UNCHANGED <<open, opened, hs, wire, input, deadline>>
    /\ UNCHANGED <<r, rlist, rs, seen, ierr, p, ioerr>>
    /\ UNCHANGED <<call, exists, args, ncalls>>
    /\ UNCHANGED extVars

(***************************************************************************)
(* greeting and proto, src/sssp.go:444-483, with what Dial does with       *)
(* their errors (lines 501-509).                                           *)
(***************************************************************************)
\* Variant of DialGreetingErr that leaves the connection open.
DialGreetingErrLeaks(o, id) == o

\* Lines 501-504: c.tc.Close() after a failed greeting.
DialGreetingErr(o, id) == o \ {id}

\* Lines 506-509: c.tc.Close() after a failed proto.
DialProtoErr(o, id) == o \ {id}

\* Variant of AckAccepted that takes any line for the acknowledgement.
AckAcceptedAnyLine(line) == TRUE

\* Line 477: the reply to the protocol line begins with ACC.
AckAccepted(line) == HasPrefix(line, ackResp)

\* greeting: the deadline is set, one line is read, the deferred call
\* clears the deadline.
greeting ==
    /\ pc = "greeting"
    /\ \E got \in ReadReply :
        /\ deadline' = FALSE
        /\ IF got.err # Nil
           THEN /\ hs' = Append(hs, HsReadErr)
                /\ err' = got.err
                /\ open' = DialGreetingErr(open, client.tc)
                /\ pc' = "failed"
           ELSE IF ~HasPrefix(got.line, okResp)
           THEN /\ hs' = Append(hs, HsRead(got.line))
                /\ err' = Errorf("Greeting failed: %s", got.line)
                /\ open' = DialGreetingErr(open, client.tc)
                /\ pc' = "failed"
           ELSE /\ hs' = Append(hs, HsRead(got.line))
                /\ pc' = "proto"
                /\ UNCHANGED <<err, open>>
    /\ UNCHANGED <<wire, input, r, rlist, rs, seen, ierr, p, ioerr>>
    /\ UNCHANGED <<call, exists, args, client, opened, dials, ncalls>>
    /\ UNCHANGED extVars

\* proto: writes the protocol line, reads one line; the deferred call
\* clears the deadline.  On success Dial returns nil: the session is ready.
proto ==
    /\ pc = "proto"
    /\ \E w \in WriteOutcomes, got \in ReadReply :
        /\ deadline' = FALSE
        /\ IF w # Nil
           THEN /\ hs' = Append(hs, HsWriteErr)
                /\ err' = w
                /\ open' = DialProtoErr(open, client.tc)
                /\ pc' = "failed"
           ELSE IF got.err # Nil
           THEN /\ hs' = hs \o <<HsWrite(protocolVersion), HsReadErr>>
                /\ err' = got.err
                /\ open' = DialProtoErr(open, client.tc)
                /\ pc' = "failed"
           ELSE IF ~AckAccepted(got.line)
           THEN /\ hs' = hs \o <<HsWrite(protocolVersion), HsRead(got.line)>>
                /\ err' = Errorf("Ack failed: %s", got.line)
                /\ open' = DialProtoErr(open, client.tc)
                /\ pc' = "failed"
           ELSE /\ hs' = hs \o <<HsWrite(protocolVersion), HsRead(got.line)>>
                /\ err' = Nil
                /\ pc' = "idle"
                /\ UNCHANGED open
    /\ UNCHANGED <<wire, input, r, rlist, rs, seen, ierr, p, ioerr>>
    /\ UNCHANGED <<call, exists, args, client, opened, dials, ncalls>>
    /\ UNCHANGED extVars


(***************************************************************************)
(* Dial called by the user of the package, src/sssp.go:489-497, and the    *)
(* two setters, lines 102-111.                                             *)
(***************************************************************************)
\* Dial on an existing Client: a new dial() starts; the connection and the
\* transport the Client holds so far are not touched before it ends.
Dial ==
    /\ pc \in {"idle", "failed", "closed"}
    /\ client # Nil
    /\ ncalls < MaxDials
    /\ call' = [op |-> "Dial"]
    /\ ncalls' = ncalls + 1
    /\ dials' = <<>>
    /\ pc' = EnterDial(client)
    /\ client' = IF client.connRetries < 0
                 THEN [client EXCEPT !.conn = 0]
                 ELSE client
    /\ UNCHANGED <<wire, deadline, input, r, rlist, rs, seen, ierr, err, p,
                   ioerr>>
    /\ UNCHANGED <<exists, args, open, opened, hs>>
    /\ UNCHANGED extVars

\* Variant of SetField that ignores a value that is not positive.
SetFieldIfPositive(old, new) == IF new > 0 THEN new ELSE old

\* Lines 104 and 110: the assignment c.cmdTimeout = t, c.connSleep = s.
SetField(old, new) == new

SetCmdTimeout ==
    /\ pc \in {"idle", "failed"}
    /\ client # Nil
    /\ \E t \in Durations :
        /\ call' = [op |-> "SetCmdTimeout", t |-> t]
        /\ client' = [client EXCEPT !.cmdTimeout = SetField(@, t)]
    /\ UNCHANGED <<pc, wire, deadline, input, r, rlist, rs, seen, ierr, err,
                   p, ioerr>>
    /\ UNCHANGED <<exists, args, open, opened, dials, hs, ncalls>>
    /\ UNCHANGED extVars

SetConnSleep ==
    /\ pc \in {"idle", "failed"}
    /\ client # Nil
    /\ \E s \in Durations :
        /\ call' = [op |-> "SetConnSleep", s |-> s]
        /\ client' = [client EXCEPT !.connSleep = SetField(@, s)]
    /\ UNCHANGED <<pc, wire, deadline, input, r, rlist, rs, seen, ierr, err,
                   p, ioerr>>
    /\ UNCHANGED <<exists, args, open, opened, dials, hs, ncalls>>
    /\ UNCHANGED extVars

(***************************************************************************)
(* Close, src/sssp.go:115-124, with basicCmd(Quit), lines 186-201.         *)
(***************************************************************************)
\* Variant of CloseTransport that closes only after a quit without error.
CloseTransportIfQuitOk(o, id, qerr) == IF qerr # Nil THEN o ELSE o \ {id}

\* Lines 118-122: c.tc.Close() is called on both branches.
CloseTransport(o, id, qerr) == o \ {id}

\* Variant of CloseResult that prefers the error of closing.
CloseResultPrefersClose(qerr, cerr) == IF cerr # Nil THEN cerr ELSE qerr

\* Lines 117-122: the error of basicCmd if there is one, otherwise the
\* error of c.tc.Close().
CloseResult(qerr, cerr) == IF qerr # Nil THEN qerr ELSE cerr

\* basicCmd sets the deadline and writes "BYE"; a failed write returns
\* before the deadline reset is deferred; otherwise one line is read and
\* the deadline is cleared.  Then the transport is closed.
Close ==
    IF Unconnected
    THEN NilConn([op |-> "Close"])
    ELSE /\ pc = "idle"
         /\ client # Nil
         /\ \E w \in WriteOutcomes, got \in ReadReply, cerr \in CloseOutcomes :
             LET qerr == IF w # Nil THEN w ELSE got.err
             IN  /\ call' = [op |-> "Close", qerr |-> qerr, cerr |-> cerr]
                 /\ IF w # Nil
                    THEN /\ deadline' = TRUE
                         /\ UNCHANGED <<wire, input>>
                    ELSE /\ wire' = Append(wire, [kind |-> "line",
                                                 data |-> CommandString(Quit)])
                         /\ deadline' = FALSE
                         /\ input' = IF got.err # Nil THEN input
                                     ELSE Append(input, got.line)
                 /\ open' = CloseTransport(open, client.tc, qerr)
                 /\ err' = CloseResult(qerr, cerr)
                 /\ pc' = "closed"
         /\ UNCHANGED <<r, rlist, rs, seen, ierr, p, ioerr>>
         /\ UNCHANGED <<exists, args, client, opened, dials, hs, ncalls>>
         /\ UNCHANGED extVars

(***************************************************************************)
(* The life of one Client: NewClient, then any of Dial, the setters, the   *)
(* scan commands and Close.  The reply parsers are explored in Spec.       *)
(***************************************************************************)
InitConn ==
    /\ pc = "start"
    /\ wire = <<>>
    /\ deadline = FALSE
    /\ input = <<>>
    /\ r = Nil
    /\ rlist = <<>>
    /\ rs = Nil
    /\ seen = FALSE
    /\ ierr = Nil
    /\ err = Nil
    /\ p = <<>>
    /\ ioerr = Nil
    /\ call = [op |-> "none"]
    /\ exists \in Environments
    /\ args = Nil
    /\ client = Nil
    /\ open = {}
    /\ opened = 0
    /\ dials = <<>>
    /\ hs = <<>>
    /\ ncalls = 0
    /\ command = 0
    /\ str = Nil
    /\ caller = [c \in Callers |-> IdleCaller]
    /\ pipe = NewPipeline
    /\ transport = NewTransport

NextConn ==
    \/ NewClient
    \/ dial
    \/ greeting
    \/ proto
    \/ Dial
    \/ SetCmdTimeout
    \/ SetConnSleep
    \/ Close
    \/ fileCmd
    \/ readerCmd
    \/ dirCmd

SpecConn == InitConn /\ [][NextConn]_vars


(***************************************************************************)
(* Several goroutines calling one connected Client.  c.tc is a             *)
(* textproto.Conn: Next() draws an id, StartRequest(id) and                *)
(* StartResponse(id) block until the sequencer admits the id, EndRequest   *)
(* and EndResponse admit the next one.  An operation is split where it can *)
(* block: at StartRequest, at StartResponse and at every ReadLine.  What   *)
(* the parsers make of the lines is explored in Spec; here a caller's err  *)
(* is the input or transport error of its operation.                       *)
(***************************************************************************)
\* What os.Stat(p) and os.Open(p) give for the path handed to ScanStream,
\* lines 143-154.
StreamPaths == {"missing", "unstatable", "directory", "unopenable", "regular"}

\* The errors of os.Stat and os.Open.
NotExistErr == [format |-> "stat: no such file or directory", arg |-> <<>>]
OpenErr == [format |-> "open: permission denied", arg |-> <<>>]

\* The *os.File that os.Open returns for a regular file, line 152.
OpenedFile == Source("os.File", 2, 0, TRUE, TRUE)

\* The io.Reader values handed to ScanReader by the concurrent callers: in
\* addition to Readers, a bytes.Reader read in part, a file at its start, a
\* file read in part, a handle whose reads fail (a directory, a file opened
\* for writing only) and a closed file.
Sources ==
    Readers \cup
    { Source("bytes.Reader", 3, 1, TRUE, TRUE),
      OpenedFile,
      Source("os.File", 2, 1, TRUE, TRUE),
      Source("os.File", 2, 0, TRUE, FALSE),
      Source("os.File", 2, 0, FALSE, TRUE) }

\* The calls a goroutine makes.
Operations ==
    { [op |-> "ScanFile", path |-> PathA],
      [op |-> "ScanDir", path |-> PathA],
      [op |-> "Close"] } \cup
    { [op |-> "ScanStream", path |-> k] : k \in StreamPaths } \cup
    { [op |-> "ScanReader", i |-> i] : i \in Sources }

\* Lines 143-154 of ScanStream, then lines 227-243 of readerCmd: the error
\* that ends the operation before it reaches c.tc.Next(), Nil if none.
InputErr(o) ==
    IF o.op = "ScanStream"
    THEN IF o.path = "missing" THEN NotExistErr
         ELSE IF o.path = "directory"
         THEN Errorf("Scanning directories is not supported", <<>>)
         ELSE IF o.path = "unopenable" THEN OpenErr
         ELSE ContentLength(OpenedFile).err
    ELSE IF o.op = "ScanReader" THEN ContentLength(o.i).err
    ELSE Nil

\* The io.Reader readerCmd is called with.
SourceOf(o) == IF o.op = "ScanStream" THEN OpenedFile ELSE o.i

\* The operation goes through readerCmd.
IsStream(o) == o.op \in {"ScanStream", "ScanReader"}

\* Variant of Admitted under which the id is drawn before the input is
\* examined.
AdmittedAlways(e) == TRUE

\* Lines 236-245: an input error returns before id = c.tc.Next().
Admitted(e) == e = Nil

\* A goroutine has panicked: the process has ended.
Crashed == \E c \in Callers : caller[c].pc = "panic"

\* c.tc.Close() has been called: the connection is closed.
Closed == client.tc \notin open

\* The error of using the closed connection.
ClosedErr == [format |-> "use of closed network connection", arg |-> <<>>]

\* The outcomes of writing to c.tc: once a write has failed the buffered
\* writer returns that error for every later write and Flush.
PipeWriteOutcomes ==
    IF transport.werr # Nil THEN {transport.werr}
    ELSE IF Closed THEN {ClosedErr}
    ELSE WriteOutcomes

\* The reply lines the concurrent callers read.
PipeLines ==
    { <<>>,
      doneOk,
      virusResp \o SP \o <<"E">> \o SP \o MemberA,
      okResp \o SP \o <<"0">> \o SP \o PathA }

\* The server answers the requests it has received in full, in the order it
\* received them: the next line on the connection belongs to the reply to
\* the request of this goroutine, 0 when every request has its whole reply
\* read.
Owner ==
    IF transport.reply < Len(transport.written)
    THEN transport.written[transport.reply + 1]
    ELSE 0

\* The line ends the reply of goroutine d: the reply to QUIT is one line
\* (line 198), the reply to a scan command ends with an empty line (lines
\* 319 and 372).
EndsReply(d, line) == caller[d].op.op = "Close" \/ line = <<>>

\* c.tc.ReadLine() of a concurrent caller: a line of the reply the server
\* sends next, or a read error (the deadline has passed, the connection is
\* closed).
PipeReadLine ==
    {[line |-> <<>>, err |-> IF Closed THEN ClosedErr ELSE ReadErr]} \cup
    (IF ~Closed /\ transport.lines < MaxReplies /\ Owner # 0
     THEN {[line |-> l, err |-> Nil] : l \in PipeLines}
     ELSE {})

\* The variables of the sequential caller, which the goroutines leave alone.
seqVars == <<pc, input, r, rlist, rs, seen, ierr, err, p, ioerr, call>>

\* Lines 250, 256, 260 and the return inside Cmd: a request that failed
\* calls EndRequest(id) only.
FailedRequest(pl) == [pl EXCEPT !.request = @ + 1]

\* The entry of ScanFile, ScanDir, ScanStream, ScanReader or Close, up to
\* the call of StartRequest.  fileCmd, dirCmd and basicCmd set the deadline
\* and enter Cmd, which draws the id; ScanStream and readerCmd examine their
\* input first, and readerCmd has deferred the deadline reset by then.
Invoke(c) ==
    /\ ~Crashed
    /\ caller[c].pc = "idle"
    /\ \E o \in Operations :
        LET e == InputErr(o)
        IN  /\ IF o.op = "ScanStream" /\ o.path = "unstatable"
               THEN \* line 147: stat is nil
                    /\ caller' = [caller EXCEPT ![c] =
                                     [pc |-> "panic", op |-> o, id |-> 0,
                                      err |-> Nil]]
                    /\ UNCHANGED <<pipe, deadline>>
               ELSE /\ caller' = [caller EXCEPT ![c] =
                                     [pc |-> IF e = Nil THEN "request"
                                             ELSE "returned",
                                      op |-> o,
                                      id |-> IF Admitted(e) THEN pipe.id
                                             ELSE 0,
                                      err |-> e]]
                    /\ pipe' = IF Admitted(e)
                               THEN [pipe EXCEPT !.id = @ + 1]
                               ELSE pipe
                    /\ deadline' =
                          IF ~IsStream(o) THEN TRUE
                          ELSE IF e # Nil /\ (o.op = "ScanReader"
                                              \/ o.path = "regular")
                          THEN FALSE
                          ELSE deadline
    /\ UNCHANGED <<wire, transport, open>>
    /\ UNCHANGED seqVars
    /\ UNCHANGED <<exists, args, client, opened, dials, hs, ncalls>>
    /\ UNCHANGED <<command, str>>

\* StartRequest(id) admits the caller; it writes its command line, for
\* readerCmd followed by the payload and a Flush, and calls EndRequest(id).
\* A failed request returns: Close goes on to c.tc.Close(), readerCmd runs
\* its deferred deadline reset.
StartRequest(c) ==
    /\ ~Crashed
    /\ caller[c].pc = "request"
    /\ pipe.request = caller[c].id
    /\ LET o == caller[c].op
           i == SourceOf(o)
           line == IF o.op = "ScanFile" THEN CmdLine(ScanFile, o.path)
                   ELSE IF o.op = "ScanDir" THEN CmdLine(ScanDir, o.path)
                   ELSE IF o.op = "Close"
                   THEN [kind |-> "line", data |-> CommandString(Quit)]
                   ELSE CmdLine(ScanData, Itoa(ContentLength(i).clen))
       IN  \E w1 \in PipeWriteOutcomes :
             IF w1 # Nil
             THEN \* the command line is not written
                  /\ transport' = [transport EXCEPT !.werr = w1]
                  /\ pipe' = FailedRequest(pipe)
                  /\ caller' = [caller EXCEPT ![c].pc = "returned",
                                              ![c].err = w1]
                  /\ open' = IF o.op = "Close"
                             THEN CloseTransport(open, client.tc, w1)
                             ELSE open
                  /\ deadline' = IF IsStream(o) THEN FALSE ELSE deadline
                  /\ UNCHANGED wire
             ELSE IF ~IsStream(o)
             THEN /\ wire' = Append(wire, line)
                  /\ transport' = [transport EXCEPT !.written = Append(@, c)]
                  /\ pipe' = [pipe EXCEPT !.request = @ + 1]
                  /\ caller' = [caller EXCEPT ![c].pc = "response"]
                  /\ UNCHANGED <<open, deadline>>
             ELSE IF Copy(i).err # Nil
             THEN \* line 255: reading the source fails
                  /\ wire' = Append(wire, line)
                  /\ pipe' = FailedRequest(pipe)
                  /\ caller' = [caller EXCEPT ![c].pc = "returned",
                                              ![c].err = Copy(i).err]
                  /\ deadline' = FALSE
                  /\ UNCHANGED <<transport, open>>
             ELSE \E w2 \in WriteOutcomes :
                  IF w2 # Nil
                  THEN \* lines 255-262: writing the payload fails
                       /\ wire' = Append(wire, line)
                       /\ transport' = [transport EXCEPT !.werr = w2]
                       /\ pipe' = FailedRequest(pipe)
                       /\ caller' = [caller EXCEPT ![c].pc = "returned",
                                                   ![c].err = w2]
                       /\ deadline' = FALSE
                       /\ UNCHANGED open
                  ELSE /\ wire' = wire \o
                                    << line,
                                       [kind |-> "raw", data |-> Copy(i).n] >>
                       /\ transport' =
                             [transport EXCEPT !.written = Append(@, c)]
                       /\ pipe' = [pipe EXCEPT !.request = @ + 1]
                       /\ caller' = [caller EXCEPT ![c].pc = "response"]
                       /\ deadline' = TRUE
                       /\ UNCHANGED open
    /\ UNCHANGED seqVars
    /\ UNCHANGED <<exists, args, client, opened, dials, hs, ncalls>>
    /\ UNCHANGED <<command, str>>

\* StartResponse(id) admits the caller: lines 195, 212, 265, 287.
StartResponse(c) ==
    /\ ~Crashed
    /\ caller[c].pc = "response"
    /\ pipe.response = caller[c].id
    /\ caller' = [caller EXCEPT ![c].pc = "reading"]
    /\ UNCHANGED <<wire, deadline, pipe, transport, open>>
    /\ UNCHANGED seqVars
    /\ UNCHANGED <<exists, args, client, opened, dials, hs, ncalls>>
    /\ UNCHANGED <<command, str>>

\* One ReadLine of the caller that holds the response slot.  basicCmd reads
\* one line; processResponse reads until an empty line; processResponses
\* reads until an empty line outside a VIRUS sequence (pc = "nested" inside
\* one); a read error ends all of them.  On return EndResponse(id) runs, the
\* deadline is cleared and Close closes the transport (the error of
\* c.tc.Close() itself is explored in SpecConn).
ReadResponse(c) ==
    /\ ~Crashed
    /\ caller[c].pc \in {"reading", "nested"}
    /\ \E got \in PipeReadLine :
        LET o == caller[c].op
            returns ==
                \/ got.err # Nil
                \/ o.op = "Close"
                \/ got.line = <<>> /\ caller[c].pc = "reading"
        IN  /\ transport' =
                   IF got.err # Nil THEN transport
                   ELSE [transport EXCEPT
                            !.lines = @ + 1,
                            !.reply = IF EndsReply(Owner, got.line)
                                      THEN @ + 1 ELSE @]
            /\ IF returns
               THEN /\ caller' = [caller EXCEPT ![c].pc = "returned",
                                                ![c].err = got.err]
                    /\ pipe' = [pipe EXCEPT !.response = @ + 1]
                    /\ deadline' = FALSE
                    /\ open' = IF o.op = "Close"
                               THEN CloseTransport(open, client.tc, got.err)
                               ELSE open
               ELSE /\ caller' =
                         [caller EXCEPT ![c].pc =
                             IF o.op # "ScanDir" THEN "reading"
                             ELSE IF caller[c].pc = "reading"
                             THEN IF FindStringSubmatch(got.line) # NoMatch
                                  THEN "nested" ELSE "reading"
                             ELSE IF HasPrefix(got.line, okResp)
                                  THEN "reading" ELSE "nested"]
                    /\ deadline' = TRUE
                    /\ UNCHANGED <<pipe, open>>
    /\ UNCHANGED wire
    /\ UNCHANGED seqVars
    /\ UNCHANGED <<exists, args, client, opened, dials, hs, ncalls>>
    /\ UNCHANGED <<command, str>>

NextPipe ==
    \E c \in Callers :
        \/ Invoke(c)
        \/ StartRequest(c)
        \/ StartResponse(c)
        \/ ReadResponse(c)

SpecPipe == Init /\ [][NextPipe]_vars

\* The Go scheduler runs every goroutine that can run, and every read and
\* write on the transport completes, fails or times out: a caller that is
\* admitted by a sequencer, or holds the response slot, takes its step.
\* Nothing obliges a goroutine to call an operation.
PipeFairness ==
    \A c \in Callers :
        /\ WF_vars(StartRequest(c))
        /\ WF_vars(StartResponse(c))
        /\ WF_vars(ReadResponse(c))

SpecPipeFair == SpecPipe /\ PipeFairness


(***************************************************************************)
(* Vocabulary of the properties: what was requested, what the server sent, *)
(* and what the operation returned.  These read the wire and the input     *)
(* line stream only; none of them uses the parsers' own operators.         *)
(***************************************************************************)
Last(seq) == seq[Len(seq)]

\* The operation has returned to its caller.
Returned == pc = "done"

\* The command was written and a single-target reply is (or was) parsed.
SingleStarted ==
    /\ wire # <<>>
    /\ IF Last(wire).kind = "raw" THEN TRUE
       ELSE HasPrefix(Last(wire).data, CommandString(ScanFile) \o SP)

\* The command was written and a multi-target reply is (or was) parsed.
MultiStarted ==
    /\ wire # <<>>
    /\ Last(wire).kind = "line"
    /\ HasPrefix(Last(wire).data, CommandString(ScanDir))

\* The target the caller asked for: the path of the SCANFILE line, and
\* "stream" for a stream scan.
RequestedTarget ==
    IF Last(wire).kind = "raw" THEN StreamName
    ELSE SubSeq(Last(wire).data, Len(CommandString(ScanFile)) + 2,
                Len(Last(wire).data))

\* The exchange ended at the empty-line sentinel: the operation returned
\* after its command was written and no read failed.
EndedAtSentinel ==
    /\ Returned
    /\ SingleStarted \/ MultiStarted
    /\ ioerr = Nil

\* Space-separated tokens of a line.
Tokens(line) == Split(line)

\* An infection report "VIRUS <sig> <member>" (the member may be empty
\* after the second space).
IsReport(line) ==
    /\ HasPrefix(line, virusResp)
    /\ Len(Tokens(line)) = 3
    /\ Tokens(line)[1] = virusResp
    /\ Tokens(line)[2] # <<>>

ReportSig(line) == Tokens(line)[2]
ReportMember(line) == Tokens(line)[3]

\* Multi-target line stream: the index of the infection report that opened
\* the VIRUS...OK sequence still open after the first k lines (0: none open,
\* the next line is a top-level line).
RECURSIVE SeqStart(_, _)
SeqStart(lines, k) ==
    IF k = 0 THEN 0
    ELSE LET s == SeqStart(lines, k - 1)
         IN  IF s = 0
             THEN IF IsReport(lines[k]) THEN k ELSE 0
             ELSE IF HasPrefix(lines[k], okResp) THEN 0 ELSE s

\* The raw lines of the top-level items of a multi-target line stream, in
\* arrival order: every top-level FAIL line, and the opening report of
\* every VIRUS...OK sequence (listed when its OK line arrives).
RECURSIVE TopLevelItems(_, _)
TopLevelItems(lines, k) ==
    IF k = 0 THEN <<>>
    ELSE LET s == SeqStart(lines, k - 1)
             before == TopLevelItems(lines, k - 1)
         IN  IF s = 0 /\ HasPrefix(lines[k], failResp)
             THEN Append(before, lines[k])
             ELSE IF s # 0 /\ ~HasPrefix(lines[k], virusResp)
                             /\ HasPrefix(lines[k], okResp)
             THEN Append(before, lines[s])
             ELSE before

\* The result records of a list (a nil entry is no record).
Records(list) == SelectSeq(list, LAMBDA x : x # Nil)

\* Every result record the operation hands to its caller.
ReturnedRecords ==
    IF ~Returned THEN {}
    ELSE (IF r # Nil THEN {r} ELSE {})
         \cup {rlist[i] : i \in {j \in 1..Len(rlist) : rlist[j] # Nil}}

(***************************************************************************)
(* C1.  For every multi-target exchange that ends at the empty-line        *)
(* sentinel, the returned list holds exactly one entry per top-level FAIL  *)
(* line and per VIRUS...OK sequence of the input line stream, in arrival   *)
(* order, and nothing else: an exchange without such a line returns a list *)
(* of length 0, with no placeholder or nil entry.                          *)
(***************************************************************************)
C1_ListIsTopLevelItems ==
    (MultiStarted /\ EndedAtSentinel) =>
        /\ Len(rlist) = Len(TopLevelItems(input, Len(input)))
        /\ \A i \in 1..Len(rlist) : rlist[i] # Nil
        /\ [i \in 1..Len(rlist) |-> rlist[i].Raw]
               = TopLevelItems(input, Len(input))

\* The index of the first infection report from line i on (0: none).
RECURSIVE ReportFrom(_, _)
ReportFrom(lines, i) ==
    IF i > Len(lines) THEN 0
    ELSE IF IsReport(lines[i]) THEN i
    ELSE ReportFrom(lines, i + 1)

\* The index of the first infection report of a line stream (0: none).
FirstReport(lines) == ReportFrom(lines, 1)

(***************************************************************************)
(* C2.  Single-target mode: for the first infection report                 *)
(* "VIRUS <sig> <member>" of the exchange the returned result has          *)
(* infected = true, signature = <sig>, target = the requested target, and  *)
(* archive_member = <member> when <member> differs from the requested      *)
(* target, archive_member = "" when it equals it.                          *)
(***************************************************************************)
C2_SingleArchiveMember ==
    (Returned /\ SingleStarted /\ FirstReport(input) # 0) =>
        LET line == input[FirstReport(input)]
        IN  /\ r # Nil
            /\ r.Filename = RequestedTarget
            /\ r.Infected
            /\ r.Signature = ReportSig(line)
            /\ r.ArchiveItem = IF ReportMember(line) = RequestedTarget
                               THEN <<>>
                               ELSE ReportMember(line)

\* Both cases of C2 have happened: a report naming the requested target
\* itself, recorded with an empty archive member.
C2_Witness ==
    /\ Returned /\ SingleStarted /\ FirstReport(input) # 0
    /\ ReportMember(input[FirstReport(input)]) = RequestedTarget
    /\ RequestedTarget = PathA
    /\ r.Infected /\ r.ArchiveItem = <<>>

(***************************************************************************)
(* C3.  A single-target exchange that ends at the empty line and holds no  *)
(* VIRUS, FAIL or DONE FAIL line returns no error and the clean result:    *)
(* target = the requested target, infected = false, failed = false,        *)
(* signature = "" and archive_member = "".                                 *)
(***************************************************************************)
CleanStream(lines) ==
    \A k \in 1..Len(lines) :
        /\ ~HasPrefix(lines[k], virusResp)
        /\ ~HasPrefix(lines[k], failResp)
        /\ ~HasPrefix(lines[k], doneFail)

C3_CleanSingleResult ==
    (SingleStarted /\ EndedAtSentinel /\ CleanStream(input)) =>
        /\ err = Nil
        /\ r # Nil
        /\ r.Filename = RequestedTarget
        /\ ~r.Infected
        /\ ~r.ErrorOccured
        /\ r.Signature = <<>>
        /\ r.ArchiveItem = <<>>

\* A clean reply with protocol chatter: ACC, DONE OK, then the sentinel.
C3_Witness ==
    /\ SingleStarted /\ EndedAtSentinel /\ CleanStream(input)
    /\ Len(input) = 3
    /\ HasPrefix(input[1], ackResp)
    /\ input[2] = doneOk
    /\ err = Nil /\ r.Filename = PathA

\* The message of a terminal-failure line "DONE FAIL M".
DoneFailMessage(line) ==
    LET rest == SubSeq(line, Len(doneFail) + 1, Len(line))
    IN  IF rest # <<>> /\ rest[1] = " " THEN Tail(rest) ELSE rest

(***************************************************************************)
(* C4.  When the reply holds a line "DONE FAIL M" before the sentinel and  *)
(* no read fails, the operation returns an error whose message is exactly  *)
(* M: the line without the marker "DONE FAIL" and without one leading      *)
(* space, every other character of M kept, whatever M starts with.         *)
(* Stated for the terminal line directly before the sentinel, where no     *)
(* later line of the exchange can replace the recorded error.              *)
(***************************************************************************)
C4_DoneFailMessageExact ==
    (EndedAtSentinel /\ Len(input) >= 2
                     /\ HasPrefix(input[Len(input) - 1], doneFail)) =>
        /\ err # Nil
        /\ err.format = "%s"
        /\ err.arg = DoneFailMessage(input[Len(input) - 1])

\* The step reads the OK line that closes the sequence opened at index s.
ClosesSequence(s) ==
    /\ MultiStarted
    /\ Len(input') = Len(input) + 1
    /\ HasPrefix(Last(input'), okResp)
    /\ s # 0
    /\ s = SeqStart(input, Len(input))
    /\ \A k \in (s + 1)..Len(input) : HasPrefix(input[k], virusResp)

ExpectedInfected(report, okLine) ==
    [Filename |-> Tokens(okLine)[3],
     ArchiveItem |-> IF ReportMember(report) = Tokens(okLine)[3]
                     THEN <<>> ELSE ReportMember(report),
     Signature |-> ReportSig(report),
     Status |-> <<>>,
     Infected |-> TRUE,
     ErrorOccured |-> FALSE,
     Raw |-> report]

(***************************************************************************)
(* C5.  Multi-target mode: a top-level infection report followed, after    *)
(* any number of skipped VIRUS-prefixed lines, by an OK-prefixed line with *)
(* exactly 3 fields yields one result: infected = true, signature and      *)
(* raw_line of the first VIRUS line, target = the third field of the OK    *)
(* line, archive_member = the report's member unless it equals the target, *)
(* and then "".                                                            *)
(***************************************************************************)
C5_VirusSequenceResult ==
    [][\A s \in 1..Len(input) :
        (ClosesSequence(s) /\ Len(Tokens(Last(input'))) = 3) =>
            Records(rlist') =
                Append(Records(rlist), ExpectedInfected(input[s], Last(input')))
      ]_vars

\* VIRUS Z /a, a further VIRUS line, OK 0 /a: one infected result for /a
\* whose member, equal to the target, was cleared.
C5_Witness ==
    /\ MultiStarted /\ pc = "multi"
    /\ Len(input) = 3
    /\ IsReport(input[1]) /\ ReportMember(input[1]) = PathA
    /\ HasPrefix(input[2], virusResp)
    /\ input[3] = okResp \o SP \o <<"0">> \o SP \o PathA
    /\ Len(Records(rlist)) = 1
    /\ rlist[1].Infected /\ rlist[1].ArchiveItem = <<>>
    /\ rlist[1].Filename = PathA

\* The step reads a top-level FAIL-prefixed line.
ReadsTopLevelFail ==
    /\ MultiStarted
    /\ Len(input') = Len(input) + 1
    /\ HasPrefix(Last(input'), failResp)
    /\ SeqStart(input, Len(input)) = 0

\* The line stream holds a malformed per-item line: a top-level FAIL line
\* or a closing OK line that has not exactly 3 fields.
MalformedItem(lines) ==
    \E k \in 1..Len(lines) :
        /\ Len(Tokens(lines[k])) # 3
        /\ \/ SeqStart(lines, k - 1) = 0 /\ HasPrefix(lines[k], failResp)
           \/ /\ SeqStart(lines, k - 1) # 0
              /\ ~HasPrefix(lines[k], virusResp)
              /\ HasPrefix(lines[k], okResp)

\* C6, the step of a top-level FAIL line: a result is appended.
C6_FailAppends ==
    ReadsTopLevelFail =>
        /\ Len(Records(rlist')) = Len(Records(rlist)) + 1
        /\ SubSeq(Records(rlist'), 1, Len(Records(rlist))) = Records(rlist)
        /\ Last(Records(rlist')).ErrorOccured
        /\ Last(Records(rlist')).Filename =
               IF Len(Tokens(Last(input'))) = 3
               THEN Tokens(Last(input'))[3] ELSE <<>>

\* C6, the step of a malformed closing OK line: a result is appended.
C6_MalformedOkAppends ==
    \A s \in 1..Len(input) :
        (ClosesSequence(s) /\ Len(Tokens(Last(input'))) # 3) =>
            /\ Len(Records(rlist')) = Len(Records(rlist)) + 1
            /\ SubSeq(Records(rlist'), 1, Len(Records(rlist))) = Records(rlist)
            /\ Last(Records(rlist')).Filename = <<>>

\* C6, the return: a malformed per-item line makes the operation that ends
\* at the sentinel return an error.
C6_ErrorAtSentinel ==
    (MultiStarted /\ EndedAtSentinel /\ MalformedItem(input)) => err # Nil

C7_InfectedFailedExclusive ==
    \A x \in ReturnedRecords : ~(x.Infected /\ x.ErrorOccured)

\* A returned list that holds a failed result and an infected result.
C7_Witness ==
    /\ Returned
    /\ \E x \in ReturnedRecords : x.ErrorOccured
    /\ \E x \in ReturnedRecords : x.Infected

(***************************************************************************)
(* C8, as the specification states it.  Every result record returned has   *)
(* archive_member different from target, and a non-empty archive_member    *)
(* only when infected is true.                                             *)
(***************************************************************************)
C8_Original_ArchiveMemberNeverTarget ==
    \A x \in ReturnedRecords :
        /\ x.ArchiveItem # x.Filename
        /\ (x.ArchiveItem # <<>> => x.Infected)

(***************************************************************************)
(* C8, amended.  Every result record returned has an archive_member that   *)
(* is empty or different from target, and a non-empty archive_member only  *)
(* when infected is true.                                                  *)
(***************************************************************************)
C8_ArchiveMemberEmptyOrOther ==
    \A x \in ReturnedRecords :
        x.ArchiveItem # <<>> => (x.ArchiveItem # x.Filename /\ x.Infected)

\* Returned results with a non-empty archive member: one of a sequence
\* closed by a well-formed OK line, one of a sequence closed by a malformed
\* OK line (empty target).
C8_Witness ==
    /\ Returned
    /\ \E x \in ReturnedRecords : x.ArchiveItem # <<>> /\ x.Filename # <<>>
    /\ \E x \in ReturnedRecords : x.ArchiveItem # <<>> /\ x.Filename = <<>>

\* The line stream holds a line that records a protocol-content error in
\* either mode: a DONE FAIL line read by the main loop.
HasDoneFail(lines) ==
    \E k \in 1..Len(lines) :
        /\ HasPrefix(lines[k], doneFail)
        /\ MultiStarted => SeqStart(lines, k - 1) = 0

(***************************************************************************)
(* C9.  In both parsing modes: if a line read fails, the operation returns *)
(* that I/O error, also when a protocol-content error was recorded earlier *)
(* in the exchange; if no read fails and a protocol-content error was      *)
(* recorded, the operation returns that error together with the result(s)  *)
(* parsed from the exchange.                                               *)
(***************************************************************************)
C9_ErrorPrecedence ==
    (Returned /\ (SingleStarted \/ MultiStarted)) =>
        /\ ioerr # Nil => err = ioerr
        /\ (ioerr = Nil /\ HasDoneFail(input)) => ierr # Nil
        /\ (ioerr = Nil /\ ierr # Nil) =>
               /\ err = ierr
               /\ SingleStarted => (r # Nil /\ r.Filename = RequestedTarget)
               /\ MultiStarted =>
                      Len(Records(rlist)) = Len(TopLevelItems(input, Len(input)))

\* A read failure after a DONE FAIL line was recorded: the I/O error wins.
C9_Witness ==
    /\ Returned /\ MultiStarted
    /\ ioerr # Nil /\ ierr # Nil /\ err = ioerr
    /\ HasDoneFail(input)
    /\ Len(Records(rlist)) = 2

\* "VIRUS <sig>": exactly two tokens.
IsBareReport(line) ==
    /\ Len(Tokens(line)) = 2
    /\ Tokens(line)[1] = virusResp
    /\ Tokens(line)[2] # <<>>

(***************************************************************************)
(* C10.  The member token of an infection report is optional: a line       *)
(* "VIRUS <sig>" with no member token and no trailing space is an          *)
(* infection report (infected = true, signature = <sig>, archive_member    *)
(* empty) and records no malformed-report error.                           *)
(* Stated for a single-target exchange whose only lines are the bare       *)
(* report and the sentinel.                                                *)
(***************************************************************************)
C10_MemberTokenOptional ==
    (SingleStarted /\ EndedAtSentinel /\ Len(input) = 2
                   /\ IsBareReport(input[1])) =>
        /\ r.Infected
        /\ r.Signature = Tokens(input[1])[2]
        /\ r.ArchiveItem = <<>>
        /\ err = Nil

(***************************************************************************)
(* C11.  On every error path of a scan operation, a failed write of the    *)
(* command line included, the caller receives a result record together     *)
(* with the error: ScanFile never returns a nil *Response along with its   *)
(* error.                                                                  *)
(***************************************************************************)
C11_ResultAlongsideError ==
    (Returned /\ call.op = "ScanFile" /\ err # Nil) => r # Nil

(***************************************************************************)
(* Vocabulary of the connection properties.                                *)
(***************************************************************************)
\* dial() has returned: at least one attempt was made and the loop is left.
DialEnded == pc # "dial" /\ dials # <<>>

\* The Client has been built (NewClient passed its validation).
Built == client # Nil

\* Dial has returned an error; an operation called on the session since then
\* may have panicked.
DialFailed == pc \in {"failed", "panic"}

(***************************************************************************)
(* C12.  dial makes at most connRetries + 1 attempts; every attempt but    *)
(* the last one ended in a time-out, and the loop goes on only after a     *)
(* time-out; an attempt failing with any other error ends the loop at      *)
(* once with that error; the first successful attempt ends the loop with   *)
(* the connection it returned; when connRetries + 1 attempts timed out,    *)
(* the error of the last one is returned.                                  *)
(***************************************************************************)
C12_DialAttempts ==
    Built =>
        /\ Len(dials) <= IF client.connRetries < 0 THEN 0
                         ELSE client.connRetries + 1
        /\ \A k \in 1 .. Len(dials) - 1 : dials[k] = "timeout"
        /\ (pc = "dial" /\ dials # <<>>) =>
                /\ dials[Len(dials)] = "timeout"
                /\ Len(dials) <= client.connRetries
        /\ (DialEnded /\ dials[Len(dials)] = "ok") =>
                /\ client.conn = opened
                /\ client.conn # 0
        /\ (DialEnded /\ dials[Len(dials)] = "refused") =>
                /\ DialFailed
                /\ client.conn = 0
                /\ err = DialErr("refused", Len(dials))
        /\ (DialEnded /\ dials[Len(dials)] = "timeout") =>
                /\ DialFailed
                /\ client.conn = 0
                /\ Len(dials) = client.connRetries + 1
                /\ err = DialErr("timeout", Len(dials))

\* Every allowed attempt timed out, with at least one retry.
C12_Witness ==
    /\ Built /\ DialEnded
    /\ client.connRetries >= 1
    /\ Len(dials) = client.connRetries + 1
    /\ \A k \in 1 .. Len(dials) : dials[k] = "timeout"
    /\ err = DialErr("timeout", Len(dials))


\* The latest Dial returned nil: the session is ready, or a command has been
\* sent on it since.
DialSucceeded == pc \in {"idle", "single", "multi", "inner", "done", "closed"}

\* Entry k of the handshake log is a line read that begins with prefix.
ReadWithPrefix(k, prefix) ==
    /\ k <= Len(hs)
    /\ hs[k].ev = "read"
    /\ HasPrefix(hs[k].line, prefix)

\* The lines the commands wrote on the transport since the handshake.
CommandLines == {wire[k].data : k \in {j \in 1 .. Len(wire) : wire[j].kind = "line"}}

(***************************************************************************)
(* C13.  Dial returns nil only when, on the connection it has just dialed  *)
(* and in this order, a line beginning with "OK" was read, the line        *)
(* "SSSP/1.0" was written and a line beginning with "ACC" was read.  The   *)
(* protocol line is written at most once per connection and never before   *)
(* the greeting was accepted; the commands sent afterwards neither write   *)
(* it again nor add a step to the handshake of that connection.            *)
(***************************************************************************)
C13_HandshakeOrder ==
    /\ [](/\ DialSucceeded =>
                /\ client.conn = opened
                /\ client.tc = opened
                /\ Len(hs) = 3
                /\ ReadWithPrefix(1, okResp)
                /\ hs[2] = HsWrite(protocolVersion)
                /\ ReadWithPrefix(3, ackResp)
          /\ \A k \in 1 .. Len(hs) :
                hs[k].ev = "write" =>
                    /\ k = 2
                    /\ hs[k].line = protocolVersion
                    /\ ReadWithPrefix(1, okResp)
          /\ DialSucceeded => protocolVersion \notin CommandLines)
    /\ [][(DialSucceeded /\ client'.conn = client.conn) => hs' = hs]_vars

\* A second connection was dialed on the same Client, its handshake
\* succeeded and a command (BYE) was sent on it.
C13_Witness ==
    /\ pc = "closed"
    /\ opened = 2
    /\ client.conn = 2
    /\ Len(hs) = 3
    /\ Len(wire) = 1


\* The handshake on the current transport failed: a read or a write failed,
\* the greeting did not begin with OK, or the reply to the protocol line
\* did not begin with ACC.
HandshakeFailure ==
    /\ hs # <<>>
    /\ \/ Last(hs).ev \in {"read failed", "write failed"}
       \/ Len(hs) = 1 /\ ~ReadWithPrefix(1, okResp)
       \/ Len(hs) = 3 /\ ~ReadWithPrefix(3, ackResp)

\* The error Dial returns for the failure the handshake log ends with.
HandshakeError ==
    IF Last(hs).ev = "read failed" THEN ReadErr
    ELSE IF Last(hs).ev = "write failed" THEN WriteErr
    ELSE IF Len(hs) = 1 THEN Errorf("Greeting failed: %s", hs[1].line)
    ELSE Errorf("Ack failed: %s", hs[3].line)

(***************************************************************************)
(* C14.  Whenever a handshake step fails after a successful dial (the      *)
(* greeting cannot be read or does not begin with "OK", the protocol line  *)
(* cannot be written, its reply cannot be read or does not begin with      *)
(* "ACC"), Dial returns an error and the connection has been closed.       *)
(***************************************************************************)
C14_HandshakeFailureCloses ==
    /\ (pc = "failed" /\ DialEnded /\ Last(dials) = "ok") =>
            /\ HandshakeFailure
            /\ err = HandshakeError
            /\ client.tc \notin open
    /\ HandshakeFailure =>
            /\ ~DialSucceeded
            /\ pc \notin {"greeting", "proto"}
            /\ err # Nil
            /\ client.tc \notin open

\* The greeting could not be read on a connection that was dialed at the
\* second attempt.
C14_Witness ==
    /\ pc = "failed"
    /\ dials = <<"timeout", "ok">>
    /\ hs = <<HsReadErr>>
    /\ err = ReadErr
    /\ client.tc = opened


\* NewClient has been called with the arguments args.
NewClientCalled == args # Nil

\* NewClient returned an error before building a Client: nothing was dialed.
NothingAttempted ==
    /\ pc = "failed"
    /\ client = Nil
    /\ ncalls = 0
    /\ dials = <<>>
    /\ opened = 0
    /\ open = {}
    /\ hs = <<>>

(***************************************************************************)
(* C15.  NewClient for the network unix or unixpacket whose socket path    *)
(* does not exist returns the error "The unix socket: <path> does not      *)
(* exist" naming that path and makes no connection attempt: Dial is not    *)
(* called and the dial loop is never entered.                              *)
(***************************************************************************)
C15_MissingSocket ==
    (/\ NewClientCalled
     /\ args.network \in {unix, unixpacket}
     /\ args.address \notin exists) =>
        /\ err = Errorf("The unix socket: %s does not exist", args.address)
        /\ NothingAttempted

\* NewClient("unixpacket", "/s", ...) where /s does not exist.
C15_Witness ==
    /\ NewClientCalled
    /\ args.network = unixpacket
    /\ args.address = SockA
    /\ SockA \notin exists
    /\ pc = "failed"


(***************************************************************************)
(* C16, as the specification states it.  NewClient with a network name     *)
(* outside {unix, unixpacket, tcp, tcp4, tcp6} returns the error           *)
(* "Protocol: <name> is not supported" naming that network, makes no       *)
(* connection attempt and returns no Client.                               *)
(***************************************************************************)
C16_Original_AnyNameOutsideTheSet ==
    (/\ NewClientCalled
     /\ args.network \notin {unix, unixpacket, tcp, tcp4, tcp6}) =>
        /\ err = Errorf("Protocol: %s is not supported", args.network)
        /\ NothingAttempted

(***************************************************************************)
(* C16.  NewClient with a network name outside {unix, unixpacket, tcp,     *)
(* tcp4, tcp6}, other than the empty name given together with an empty     *)
(* address (which stands for unix), returns the error "Protocol: <name>    *)
(* is not supported" naming that network, whether or not the address       *)
(* exists as a socket path (the name is checked first), makes no           *)
(* connection attempt and returns no Client.                               *)
(***************************************************************************)
C16_UnsupportedNetwork ==
    (/\ NewClientCalled
     /\ args.network \notin {unix, unixpacket, tcp, tcp4, tcp6}
     /\ ~(args.network = <<>> /\ args.address = <<>>)) =>
        /\ err = Errorf("Protocol: %s is not supported", args.network)
        /\ NothingAttempted

\* NewClient("udp", "/s", ...) where /s does not exist: the error is about
\* the network, not about the socket.
C16_Witness ==
    /\ NewClientCalled
    /\ args.network = udp
    /\ args.address = SockA
    /\ SockA \notin exists
    /\ pc = "failed"
    /\ client = Nil


\* The arguments of NewClient with unix and the default socket path in the
\* place of network and address.
WithDefaults == [args EXCEPT !.network = unix, !.address = defaultSock]

\* The fields of the Client that only NewClient assigns.
Endpoint(cl) ==
    [network |-> cl.network, address |-> cl.address,
     connTimeout |-> cl.connTimeout, connRetries |-> cl.connRetries]

(***************************************************************************)
(* C17.  NewClient called with network and address both empty behaves as   *)
(* NewClient("unix", defaultSock, ...): the same validation with the same  *)
(* error, naming the default path, when that path does not exist, and      *)
(* otherwise the same Client.  The defaults are applied only when both     *)
(* are empty: with just one of them empty the arguments are used as        *)
(* given, in the Client and in the errors.                                 *)
(***************************************************************************)
C17_DefaultsOnlyWhenBothEmpty ==
    NewClientCalled =>
        /\ (args.network = <<>> /\ args.address = <<>>) =>
              /\ Built <=> Validate(WithDefaults) = Nil
              /\ ~Built => /\ err = Validate(WithDefaults)
                           /\ NothingAttempted
              /\ Built => Endpoint(client) = Endpoint(ClientOf(WithDefaults))
              /\ IF defaultSock \in exists
                 THEN /\ Built
                      /\ client.network = unix
                      /\ client.address = defaultSock
                 ELSE /\ err = Errorf("The unix socket: %s does not exist",
                                      defaultSock)
                      /\ NothingAttempted
        /\ (args.network = <<>> /\ args.address # <<>>) =>
              /\ err = Errorf("Protocol: %s is not supported", <<>>)
              /\ NothingAttempted
        /\ (args.network # <<>> /\ args.address = <<>>) =>
              /\ Built => /\ client.network = args.network
                          /\ client.address = <<>>
              /\ ~Built =>
                    /\ NothingAttempted
                    /\ err = IF args.network \in {unix, unixpacket}
                             THEN Errorf("The unix socket: %s does not exist",
                                         <<>>)
                             ELSE Errorf("Protocol: %s is not supported",
                                         args.network)

\* NewClient("", "", ...) where the default socket exists: the session came
\* up on unix and the default path.
C17_Witness ==
    /\ NewClientCalled
    /\ args.network = <<>>
    /\ args.address = <<>>
    /\ pc = "idle"
    /\ client.network = unix
    /\ client.address = defaultSock


\* NewClient has just returned the error of its dial(): the Client was
\* built, no connection was obtained, nothing else has been called since.
NewClientDialFailed ==
    /\ NewClientCalled /\ Built
    /\ call.op = "NewClient"
    /\ pc = "failed"
    /\ DialEnded
    /\ Last(dials) # "ok"

(***************************************************************************)
(* C18, as the specification states it.  When NewClient passes validation  *)
(* but the dial fails, it returns the dial error together with a Client    *)
(* whose network, address, connect time-out and retry count equal the      *)
(* arguments supplied and whose retry sleep equals the default sleep.      *)
(***************************************************************************)
C18_Original_FieldsEqualArguments ==
    NewClientDialFailed =>
        /\ err = DialErr(Last(dials), Len(dials))
        /\ client.network = args.network
        /\ client.address = args.address
        /\ client.connTimeout = args.connTimeOut
        /\ client.connRetries = args.connRetries
        /\ client.connSleep = defaultSleep

(***************************************************************************)
(* C18.  When NewClient passes validation but the dial fails, it returns   *)
(* the dial error together with a Client whose connect time-out and retry  *)
(* count equal the arguments supplied, whose retry sleep equals the        *)
(* default sleep, and whose network and address equal the arguments        *)
(* supplied, or unix and the default socket path when both were empty.     *)
(***************************************************************************)
C18_ClientReturnedWithDialError ==
    NewClientDialFailed =>
        /\ err = DialErr(Last(dials), Len(dials))
        /\ IF args.network = <<>> /\ args.address = <<>>
           THEN /\ client.network = unix
                /\ client.address = defaultSock
           ELSE /\ client.network = args.network
                /\ client.address = args.address
        /\ client.connTimeout = args.connTimeOut
        /\ client.connRetries = args.connRetries
        /\ client.connSleep = defaultSleep

\* NewClient("tcp", "h:1", ...) whose only attempt was refused.
C18_Witness ==
    /\ NewClientDialFailed
    /\ args.network = tcp
    /\ args.address = HostA
    /\ dials = <<"refused">>
    /\ client.conn = 0
    /\ client.tc = 0


\* The step is a call of the setter named op.
SetterStep(op) == call' # call /\ call'.op = op

\* Everything of the session but the Client record and the call history.
sessionRest ==
    <<pc, wire, deadline, input, r, rlist, rs, seen, ierr, err, p, ioerr,
      exists, args, open, opened, dials, hs, ncalls>>

(***************************************************************************)
(* C19.  SetCmdTimeout(t) and SetConnSleep(s): a positive value replaces   *)
(* the command time-out, respectively the retry sleep; a zero or negative  *)
(* value is ignored and the value configured before is retained; neither   *)
(* setter changes any other field of the session.                          *)
(***************************************************************************)
C19_SettersIgnoreNonPositive ==
    [][/\ SetterStep("SetCmdTimeout") =>
            /\ client' = [client EXCEPT
                            !.cmdTimeout = IF call'.t > 0 THEN call'.t ELSE @]
            /\ UNCHANGED sessionRest
       /\ SetterStep("SetConnSleep") =>
            /\ client' = [client EXCEPT
                            !.connSleep = IF call'.s > 0 THEN call'.s ELSE @]
            /\ UNCHANGED sessionRest]_vars


\* The line basicCmd(Quit) writes.
QuitLine == [kind |-> "line", data |-> CommandString(Quit)]

(***************************************************************************)
(* C20.  Close on a connected session first attempts the quit exchange     *)
(* (it writes "BYE" and, when that was written, reads one reply line) and  *)
(* then closes the transport in every case: after Close has returned the   *)
(* transport is closed whether the exchange succeeded or failed; the       *)
(* error of the exchange is the error returned, otherwise the error of     *)
(* closing the transport is.                                               *)
(***************************************************************************)
C20_CloseAlwaysCloses ==
    pc = "closed" =>
        /\ client.tc \notin open
        /\ err = IF call.qerr # Nil THEN call.qerr ELSE call.cerr
        /\ \/ /\ wire = <<>>
              /\ input = <<>>
              /\ call.qerr = WriteErr
           \/ /\ wire = <<QuitLine>>
              /\ input = <<>>
              /\ call.qerr = ReadErr
           \/ /\ wire = <<QuitLine>>
              /\ Len(input) = 1
              /\ call.qerr = Nil

\* The reply to BYE could not be read and closing the transport failed
\* too: the error of the exchange is returned, the transport is closed.
C20_Witness ==
    /\ pc = "closed"
    /\ wire = <<QuitLine>>
    /\ call.qerr = ReadErr
    /\ call.cerr = CloseErr
    /\ err = ReadErr
    /\ client.tc \notin open


(***************************************************************************)
(* C25.  Whenever a scan operation returns, with success or with any       *)
(* error, a failed write of its command line included, the deadline of     *)
(* the connection has been cleared: no deadline set for the operation      *)
(* remains in effect after it has returned.                                *)
(***************************************************************************)
C25_DeadlineClearedOnReturn ==
    Returned => ~deadline


\* The records of the list, each reduced to the line it was built from.
RawOf(list) == [k \in 1 .. Len(Records(list)) |-> Records(list)[k].Raw]

\* The index of the last OK-prefixed line among the first k lines (0: none).
RECURSIVE LastOk(_, _)
LastOk(lines, k) ==
    IF k = 0 THEN 0
    ELSE IF HasPrefix(lines[k], okResp) THEN k
    ELSE LastOk(lines, k - 1)

\* The index of the infection report that opened the VIRUS...OK sequence
\* still open at the end of the lines (0: none open): the first report after
\* the last OK-prefixed line.
OpenReport(lines) == ReportFrom(lines, LastOk(lines, Len(lines)) + 1)

\* A multi-target exchange whose last lines are a VIRUS...OK sequence that
\* was opened and never closed by an OK-prefixed line.
OpenSequenceAtReturn ==
    /\ Returned /\ MultiStarted
    /\ OpenReport(input) # 0

C27_NothingReadAfterEmptyLine ==
    /\ \A k \in 1 .. Len(input) - 1 : input[k] # <<>>
    /\ EndedAtSentinel => Returned /\ ioerr = Nil


\* A single-target reply is being parsed and a matching VIRUS line has been
\* captured.
MatchCaptured == pc = "single" /\ r.Infected

(* C28. In single-target mode, once a matching VIRUS line has been
   captured, no later line of the exchange changes the result (only the
   first match is retained), a later VIRUS-prefixed line, malformed or not,
   records no error, and a later DONE FAIL line is still recorded as the
   pending error. *)
C28_FirstMatchRetained ==
    [][MatchCaptured =>
          /\ r' = r
          /\ input' # input =>
                /\ HasPrefix(Last(input'), virusResp) => ierr' = ierr
                /\ HasPrefix(Last(input'), doneFail) =>
                      /\ ierr' # Nil
                      /\ ierr'.format = "%s"
                      /\ \E k \in 0 .. Len(Last(input')) :
                            ierr'.arg = SubSeq(Last(input'), k + 1,
                                               Len(Last(input')))]_vars

C28_Witness ==
    /\ MatchCaptured
    /\ Len(input) = 4
    /\ input[1] = virusResp \o SP \o <<"Z">> \o SP \o PathA
    /\ input[2] = virusResp \o SP \o <<"E">> \o SP \o MemberA
    /\ input[3] = virusResp \o SP \o <<"E">>
    /\ HasPrefix(input[4], doneFail)
    /\ r.Raw = input[1]
    /\ r.Signature = <<"Z">>
    /\ ierr # Nil
    /\ ierr.format = "%s"


\* The session refers to a line transport but to no connection.
TransportWithoutConnection ==
    /\ client # Nil
    /\ client.conn = 0
    /\ client.tc # 0

(* C29. Across any sequence of Dial and Close calls on one session, at most
   one connection opened by the session is open at any time, and once a
   dial has ended the session never refers to an old line transport
   together with no connection. *)
C29_OneConnection ==
    /\ Cardinality(open) <= 1
    /\ pc \in {"idle", "failed", "closed"} => ~TransportWithoutConnection


\* Command.String has returned for the value command.
Rendered == str # Nil

(* C24. Command rendering is total: ScanFile, ScanDir, ScanDirr, ScanData
   and Quit render as "SCANFILE", "SCANDIR", "SCANDIRR", "SCANDATA" and
   "BYE", and every other Command value (zero, negative, above Quit) renders
   as the empty token. *)
C24_RenderingTotal ==
    Rendered =>
        /\ command = 1 => str.s = <<"S", "C", "A", "N", "F", "I", "L", "E">>
        /\ command = 2 => str.s = <<"S", "C", "A", "N", "D", "I", "R">>
        /\ command = 3 => str.s = <<"S", "C", "A", "N", "D", "I", "R", "R">>
        /\ command = 4 => str.s = <<"S", "C", "A", "N", "D", "A", "T", "A">>
        /\ command = 5 => str.s = <<"B", "Y", "E">>
        /\ command \notin 1 .. 5 => str.s = <<>>
        /\ <<ScanFile, ScanDir, ScanDirr, ScanData, Quit>> = <<1, 2, 3, 4, 5>>

C24_Witness ==
    /\ Rendered
    /\ command = Quit
    /\ str.s = <<"B", "Y", "E">>


\* The step is the call of an operation by goroutine c.
Calls(c) == caller[c].pc = "idle" /\ caller'[c].pc # "idle"

\* The input of a stream scan is one the operation must reject: a path that
\* is a directory or does not exist, a source that is none of the types
\* whose length can be determined.
RejectedInput(o) ==
    \/ o.op = "ScanStream" /\ o.path \in {"directory", "missing"}
    \/ /\ o.op = "ScanReader"
       /\ o.i.kind \notin {"bytes.Buffer", "bytes.Reader", "strings.Reader",
                           "os.File"}

\* The error that corresponds to the rejected input.
RejectionError(o) ==
    IF o.op = "ScanReader"
    THEN [format |-> "The content length could not be determined",
          arg |-> <<>>]
    ELSE IF o.path = "directory"
    THEN [format |-> "Scanning directories is not supported", arg |-> <<>>]
    ELSE NotExistErr

(* C21. A stream scan rejected for an input error (the path is a directory,
   the path does not exist, the length of the source cannot be determined)
   returns the corresponding error at once, writes nothing to the transport
   and takes no request/response slot: the pipeline's id counter and both
   sequencers are as they were, whatever the other callers are doing. *)
C21_RejectedStreamScanWritesNothing ==
    [][\A c \in Callers :
          Calls(c) /\ RejectedInput(caller'[c].op) =>
              /\ caller'[c].pc = "returned"
              /\ caller'[c].err = RejectionError(caller'[c].op)
              /\ wire' = wire
              /\ pipe' = pipe
              /\ transport' = transport]_vars

C21_Witness ==
    /\ caller[1].pc = "returned"
    /\ caller[1].op = [op |-> "ScanStream", path |-> "directory"]
    /\ caller[1].err =
          [format |-> "Scanning directories is not supported", arg |-> <<>>]
    /\ caller[2].pc = "returned"
    /\ caller[2].op.op = "ScanReader"
    /\ caller[2].err =
          [format |-> "The content length could not be determined",
           arg |-> <<>>]
    /\ wire = <<>>
    /\ pipe = NewPipeline


\* The step completes the request of a stream scan by goroutine c: the
\* operation goes on to wait for its reply.
CompletesStreamRequest(c) ==
    /\ caller[c].pc = "request"
    /\ caller'[c].pc = "response"
    /\ caller[c].op.op \in {"ScanStream", "ScanReader"}

(* C22. For every supported stream source (an in-memory source reporting
   its remaining length, an open file handle at any read position), the
   request written is the line "SCANDATA <length>" followed by exactly
   <length> raw payload bytes and nothing else. *)
C22_DeclaredLengthIsPayloadLength ==
    [][\A c \in Callers :
          CompletesStreamRequest(c) =>
              /\ Len(wire') = Len(wire) + 2
              /\ wire'[Len(wire) + 1].kind = "line"
              /\ wire'[Len(wire) + 2].kind = "raw"
              /\ wire'[Len(wire) + 1].data =
                    <<"S", "C", "A", "N", "D", "A", "T", "A", " ">>
                       \o Itoa(wire'[Len(wire) + 2].data)]_vars


\* The step writes the command line of goroutine c.
WritesCommand(c) == caller[c].pc = "request" /\ Len(wire') > Len(wire)

\* Goroutine c has called a scan operation.
Scans(c) ==
    /\ caller[c].pc # "idle"
    /\ caller[c].op.op \in {"ScanFile", "ScanDir", "ScanStream", "ScanReader"}

\* The command of goroutine d has been written, its reply has not reached
\* its terminating condition and its operation has not returned.
ReplyPending(d) == caller[d].pc \in {"response", "reading", "nested"}

(* C23. Within one session no command line is written to the transport
   while the reply of an earlier command is still pending, also when several
   callers invoke scan operations on the session at the same time. *)
C23_NoPipelining ==
    [][\A c \in Callers :
          Scans(c) /\ WritesCommand(c) =>
              \A d \in Callers \ {c} : ~(Scans(d) /\ ReplyPending(d))]_vars


\* Goroutine c has called an operation that has not returned yet.
InOperation(c) == caller[c].pc \notin {"idle", "returned", "panic"}

(* C30. Every scan operation and Close eventually returns, provided each
   read and write on the transport eventually completes, fails or times
   out: no operation blocks forever waiting for its request or response
   slot, including one issued after an earlier operation on the session
   returned an error while writing its command or payload. *)
C30_EveryOperationReturns ==
    \A c \in Callers :
        InOperation(c) ~> (caller[c].pc = "returned" \/ Crashed)


\* A reply is being parsed.
Parsing == pc \in {"single", "multi", "inner"}

\* The line, read after the lines before, is one at which the parser records
\* a protocol-content error: a DONE FAIL line, a VIRUS-prefixed line that is
\* no infection report (in single-target mode while no report has been
\* captured), a FAIL line at the top level or an OK line closing a VIRUS
\* sequence that does not have three fields.  Inside a VIRUS sequence of a
\* multi-target reply only the closing OK line is looked at.
RecordsAnError(before, line) ==
    IF SingleStarted
    THEN \/ HasPrefix(line, doneFail)
         \/ /\ HasPrefix(line, virusResp)
            /\ ~IsReport(line)
            /\ FirstReport(before) = 0
    ELSE IF OpenReport(before) = 0
    THEN \/ HasPrefix(line, doneFail)
         \/ HasPrefix(line, failResp) /\ Len(Tokens(line)) # 3
         \/ HasPrefix(line, virusResp) /\ ~IsReport(line)
    ELSE /\ ~HasPrefix(line, virusResp)
         /\ HasPrefix(line, okResp)
         /\ Len(Tokens(line)) # 3

\* The error such a line records.
ErrorRecorded(line) ==
    IF HasPrefix(line, doneFail)
    THEN [format |-> "%s", arg |-> TrimLeft(TrimLeft(line, doneFail), SP)]
    ELSE IF HasPrefix(line, virusResp)
    THEN [format |-> IF SingleStarted THEN "Virus match failure: |%s|"
                     ELSE "Virus match failure: %s",
          arg |-> line]
    ELSE [format |-> "Invalid server response: %s", arg |-> line]

(* C32. During one exchange every line that records a protocol-content
   error replaces the error recorded before it, every other line leaves the
   recorded error as it is, and an exchange that ends at the sentinel
   without a read error returns the error recorded last: earlier recorded
   errors are overwritten and not reported. *)
C32_LatestErrorWins ==
    [][Parsing /\ input' # input =>
          /\ ierr' = IF RecordsAnError(input, Last(input'))
                     THEN ErrorRecorded(Last(input'))
                     ELSE ierr
          /\ pc' = "done" => err' = ierr']_vars

\* A DONE FAIL line and then a malformed VIRUS line were read before the
\* sentinel: the error of the VIRUS line is returned.
C32_Witness ==
    /\ EndedAtSentinel /\ SingleStarted
    /\ Len(input) = 3
    /\ HasPrefix(input[1], doneFail)
    /\ input[2] = virusResp \o SP \o <<"E">>
    /\ input[3] = <<>>
    /\ err = [format |-> "Virus match failure: |%s|", arg |-> input[2]]


\* Dial is past dial(): in the handshake, or returned without error.
PastDial == pc \in {"greeting", "proto"} \/ DialSucceeded

(* C33. For every configured retry count, including a negative one, Dial
   ends in success or in a returned error and in nothing else; it reaches
   the handshake, and reports success, only with a connection that the last
   of at least one dial attempt established; a Dial that failed has
   returned an error. *)
C33_DialSucceedsOrReturnsError ==
    Built =>
        /\ pc # "panic"
        /\ PastDial =>
              /\ dials # <<>>
              /\ Last(dials) = "ok"
              /\ client.conn # 0
        /\ pc = "failed" => err # Nil


\* The step is the call of a scan operation or of Close.
ScanOrCloseStep ==
    /\ call' # call
    /\ call'.op \in {"ScanFile", "ScanReader", "ScanDir", "ScanDirRecurse",
                     "Close"}

(* C34. A scan operation or Close invoked on a session that holds no
   connection returns an error to the caller and leaves the session as it
   was, unconnected: it ends in a return with err # nil, writes nothing and
   changes neither the client record nor the set of open connections. *)
C34_UnconnectedOperationReturnsError ==
    [][Unconnected /\ ScanOrCloseStep =>
          /\ pc' \in {"done", "closed", "failed"}
          /\ err' # Nil
          /\ client' = client
          /\ wire' = wire
          /\ open' = open]_vars


\* Every operation called so far is a scan operation.
OnlyScans == \A d \in Callers : caller[d].pc = "idle" \/ Scans(d)

\* The request of goroutine c: its command line, for a stream followed by
\* the payload.
RequestOf(c) ==
    LET o == caller[c].op
    IN  IF o.op = "ScanFile" THEN << CmdLine(ScanFile, o.path) >>
        ELSE IF o.op = "ScanDir" THEN << CmdLine(ScanDir, o.path) >>
        ELSE << CmdLine(ScanData, Itoa(ContentLength(SourceOf(o)).clen)),
                [kind |-> "raw", data |-> Copy(SourceOf(o)).n] >>

\* The step appends the request of goroutine c, or a first part of it, to
\* what the connection carries, and nothing else.
WritesRequestOf(c) ==
    /\ caller[c].pc = "request"
    /\ pipe.request = caller[c].id
    /\ \E k \in 1 .. Len(RequestOf(c)) :
          wire' = wire \o SubSeq(RequestOf(c), 1, k)

\* The step is a ReadLine of goroutine c that returns a line.
ReadsLine(c) ==
    /\ caller[c].pc \in {"reading", "nested"}
    /\ transport'.lines = transport.lines + 1

\* The step is the return of goroutine c from reading its reply, without
\* error.
ReturnsFromReply(c) ==
    /\ caller[c].pc \in {"reading", "nested"}
    /\ caller'[c].pc = "returned"
    /\ caller'[c].err = Nil

(* C31. While only scan operations are called on the session and no write
   has failed: a step that writes is taken by the goroutine the request
   sequencer admits and appends its request only, so requests are not
   interleaved; every line read is a line of the reply to the request of the
   goroutine that reads it, replies being sent in the order of the requests;
   and an operation that returns from reading has read the sentinel of its
   own reply. *)
C31_RepliesReadInRequestOrder ==
    [][OnlyScans /\ transport'.werr = Nil =>
          /\ wire' # wire => \E c \in Callers : WritesRequestOf(c)
          /\ \A c \in Callers :
                /\ ReadsLine(c) => Owner = c
                /\ ReturnsFromReply(c) =>
                      /\ Owner = c
                      /\ transport'.reply = transport.reply + 1]_vars

=============================================================================
